---- MODULE Spec2Model ----
(***************************************************************************)
(* Model of the Chrome DevTools transport (class CdpConnection) and of the *)
(* session orchestrator (main) of grok-image-gen, src/scripts/main.ts.     *)
(*                                                                         *)
(* Spec      : one CdpConnection after construction, driven by its callers *)
(*             (send, on, close), by the remote side (messages, close) and *)
(*             by the timer queue.                                         *)
(* SpecEvents: the same CdpConnection with its listeners observed: every   *)
(*             invocation of a listener and every call of off and close is *)
(*             recorded.                                                   *)
(* SpecConnect: CdpConnection.connect, from new WebSocket to its outcome,   *)
(*             and the use of the connection it returns.                   *)
(* SpecDetect: one call of getExistingDebugPort, over the contents of the   *)
(*             marker file, the process table and the answers of the       *)
(*             debugging endpoints.                                        *)
(* SpecLaunch: getFreePort followed by waitForChromeDebugPort, over the     *)
(*             outcomes of listen and close, the answers of the polls and  *)
(*             the passing of time.                                        *)
(* SpecFind  : findChromeExecutable, over the environment, the platform    *)
(*             and the files that exist.                                   *)
(* SpecPair  : two CdpConnection instances in one process.                 *)
(* SpecSave  : the selection and the download of the generated media in    *)
(*             main, over the mode, --all, the URLs and the downloads.      *)
(* SpecArgs  : parseArgs, one turn of its loop at a time, over the         *)
(*             argument lists of a few tokens.                             *)
(* SpecMain  : one run of main, from the detection of a running browser to *)
(*             the exit of the process; every awaited step succeeds or     *)
(*             throws.                                                     *)
(***************************************************************************)
EXTENDS Integers, Sequences, FiniteSets, TLC

VARIABLES
    wsState,          \* this.ws.readyState: "open", "closing" or "closed"
    nextId,           \* this.nextId
    pending,          \* this.pending: id -> [call, timer]
    eventHandlers,    \* this.eventHandlers: method -> listeners, in insertion order
    defaultTimeoutMs, \* this.defaultTimeoutMs
    timers,           \* the armed setTimeout handles of send (one per call at most)
    calls,            \* the send calls issued so far: [id, opt]
    outcome,          \* per call, the state of the promise send awaits
    attempts,         \* per call, how often its resolve or reject was invoked
    wire              \* the ids of the command messages handed to an open socket

tvars == <<wsState, nextId, pending, eventHandlers, defaultTimeoutMs, timers,
           calls, outcome, attempts, wire>>

VARIABLES
    pc,               \* the statement of main that runs next
    existingPort,     \* main's existingPort (0: null)
    port,             \* main's port (0: not assigned yet)
    ownedChrome,      \* main's ownedChrome
    chrome,           \* main's chrome: "null" or the handle "proc"
    cdp,              \* main's cdp: "null", or the state of the connection
    grokTargetId,     \* main's grokTargetId: "null" or the id of the tab it opened
    thrown,           \* an exception is on its way out of main
    stale,            \* the stale tabs still to close
    cmds,             \* the methods main passed to cdp.send, in order
    signals,          \* the signals delivered to the spawned process, in order
    chromeAlive,      \* the spawned process runs (chrome.kill can deliver a signal)
    chromeKilled,     \* chrome.killed
    killTimer         \* the SIGKILL timer of the finally block is armed

mvars == <<pc, existingPort, port, ownedChrome, chrome, cdp, grokTargetId, thrown,
           stale, cmds, signals, chromeAlive, chromeKilled, killTimer>>

VARIABLES
    invoked,          \* the listener invocations so far: [h, method, params], in order
    arrivals,         \* how many messages the socket delivered so far
    lastOff,          \* the last cdp.off call and how it ended, until the next on
    closeCalls        \* how many times close() was called

ovars == <<invoked, arrivals, lastOff, closeCalls>>

VARIABLES
    connPromise,      \* the promise connect awaits: "pending", "resolved" or the error
    connTimer,        \* the connect timer is armed
    connResult,       \* what connect gave its caller: "none" yet, "connection" or the error
    firstEvent,       \* the first of 'open', 'error' and the timer that happened
    lastFrame         \* what the message handler made of the last frame: "none" yet,
                      \* "unparsable", "unmatched" (an id without entry) or "other"

cvars == <<connPromise, connTimer, connResult, firstEvent, lastFrame>>

VARIABLES
    marker,           \* DevToolsActivePort: missing, unreadable or read, and its lines
    psOut,            \* execSync('ps aux'): whether it succeeds, and its lines
    dpc,              \* the statement of getExistingDebugPort that runs next
    idx,              \* the line of the process table the loop is at
    dport,            \* the port the pending fetch asks
    dresult,          \* the value returned (0: null)
    probes,           \* the fetches made so far and their answers: [port, res]
    scanned,          \* execSync('ps aux') was called
    owner             \* whose browser gave the last ok answer: "this" profile's or an "other"

dvars == <<marker, psOut, dpc, idx, dport, dresult, probes, scanned, owner>>

VARIABLES
    srv,              \* the throwaway server of getFreePort: "created", "listening", "closed"
    aprom,            \* the promise getFreePort returns: "pending", "resolved", "rejected"
    aport,            \* the port read from server.address() (0: none)
    aresult,          \* the port getFreePort resolved with (0: none)
    afail,            \* what failed in getFreePort: "none", "bind", "address", "close"
    wpc,              \* the statement of waitForChromeDebugPort that runs next
    wnow,             \* Date.now() - start, in poll intervals
    wTimeout,         \* timeoutMs, in poll intervals
    wstart,           \* when the pending fetch was started
    polls,            \* the polls answered so far: [at, res]
    wresult           \* what waitForChromeDebugPort gave its caller

lvars == <<srv, aprom, aport, aresult, afail, wpc, wnow, wTimeout, wstart, polls, wresult>>

VARIABLES
    fplatform,        \* process.platform
    fgrok,            \* process.env.GROK_CHROME_PATH
    fx,               \* process.env.X_BROWSER_CHROME_PATH
    ffs,              \* the paths that exist on the filesystem
    fresult,          \* what the last call of findChromeExecutable returned
    fprev,            \* what the call before it returned
    fcalls            \* how many times findChromeExecutable was called

fvars == <<fplatform, fgrok, fx, ffs, fresult, fprev, fcalls>>

VARIABLES
    inst,             \* two CdpConnection objects: each its own fields and calls
    actor             \* the instance the last step was on (0: none yet)

pvars == <<inst, actor>>

VARIABLES
    saveArgs,         \* args.video and args.all of the run
    mediaUrls,        \* result.urls, each with the resolution the page reports for it
    selectedUrls,     \* selectedUrls (<<>> before the selection)
    spc,              \* where the run is: "select", "download", "check", "done", "failed"
    si,               \* i of the download loop
    savedPaths        \* savedPaths: where a file was written, in order

svars == <<saveArgs, mediaUrls, selectedUrls, spc, si, savedPaths>>

VARIABLES
    argv,             \* the arguments parseArgs is given
    ai,               \* i of its loop (from 1)
    aout,             \* out of parseArgs: video, output, timeout
    explicitOutput,   \* explicitOutput
    explicitTimeout,  \* explicitTimeout
    positional,       \* positional
    apc               \* "loop", "ended" (the loop is over), "done" (returned), "error" (threw)

avars == <<argv, ai, aout, explicitOutput, explicitTimeout, positional, apc>>

\* The state of the helpers of main.
hvars == <<lvars, fvars, pvars, svars, avars>>

vars == <<tvars, mvars, ovars, cvars, dvars, hvars>>

----------------------------------------------------------------------------
(* Bounds and input domains *)

MaxCalls == 2

\* The stale tabs Target.getTargets reports at most.
MaxStale == 1

\* The messages, send calls and close() calls of a run with observed listeners.
MaxEvents == 2
MaxEventCalls == 1
MaxCloses == 2

\* The lines of the process table at most.
MaxLines == 2

\* The longest timeout of waitForChromeDebugPort and the latest time of its
\* clock, in poll intervals.
MaxWait == 3
MaxTicks == 5

\* The calls of findChromeExecutable in one state of the system.
MaxFinds == 2

\* The send calls on each of two instances.
MaxPairCalls == 2

\* SpecSave: the most URLs a generation returns.
MaxUrls == 3

\* SpecArgs: the most arguments on the command line.
MaxArgs == 3

\* An option that was not given (undefined).
NoOpt == -1

\* The timeouts a caller passes: none, zero, a positive one.
TimeoutOpts == {NoOpt, 0, 5}

\* The defaultTimeoutMs option a channel is constructed with: none, zero.
DefaultOpts == {NoOpt, 0}

DefaultTimeout == 15000

NoMethod == "none"
Methods == {"E1"}
EventMethods == {"E1", "E2"}

\* The listeners; Throwing are the ones that throw when invoked.
Listeners == {"h1", "hThrow"}
Throwing == {"hThrow"}

\* msg.error: absent, present with no or an empty message, present with a message.
NoError == "absent"
EmptyMessage == ""
ErrorFields == {NoError, EmptyMessage, "m1"}

Undefined == "undefined"
Results == {"r1"}

\* The incoming messages: id 0 stands for a message without an id.
Messages ==
    [id : 0..MaxCalls, method : Methods \cup {NoMethod},
     error : {NoError}, result : Results]
    \cup
    [id : 0..MaxCalls, method : Methods \cup {NoMethod},
     error : ErrorFields \ {NoError}, result : {Undefined}]

\* The incoming messages of a run with observed listeners, with their params.
EventMessages ==
    [id : 0..MaxEventCalls, method : EventMethods \cup {NoMethod},
     error : {NoError}, result : Results, params : 1..MaxEvents]

----------------------------------------------------------------------------
(* Helpers: Map, Promise, the ?? operator *)

EmptyMap == [k \in {} |-> 0]

MapSet(m, k, v) == [x \in (DOMAIN m) \cup {k} |-> IF x = k THEN v ELSE m[x]]

MapDelete(m, k) == [x \in (DOMAIN m) \ {k} |-> m[x]]

\* a ?? b
Nullish(a, b) == IF a = NoOpt THEN b ELSE a

Unsettled == [kind |-> "pending", val |-> Undefined, by |-> "none", rid |-> 0]

\* resolve/reject of a promise: only the first call decides its state.
Settle(out, c, o) == IF out[c].kind = "pending" THEN [out EXCEPT ![c] = o] ELSE out

Bump(att, c) == [att EXCEPT ![c] = @ + 1]

----------------------------------------------------------------------------
(* CdpConnection *)

\* The constructor, given options.defaultTimeoutMs:
\*   this.defaultTimeoutMs = options?.defaultTimeoutMs ?? 15_000
Fields(defaultOpt) ==
    /\ nextId = 0
    /\ pending = EmptyMap
    /\ eventHandlers = EmptyMap
    /\ defaultTimeoutMs = Nullish(defaultOpt, DefaultTimeout)
    /\ timers = {}
    /\ calls = <<>>
    /\ outcome = <<>>
    /\ attempts = <<>>
    /\ wire = <<>>

\* The constructor is given a socket that is open.
Constructed(defaultOpt) ==
    /\ wsState = "open"
    /\ Fields(defaultOpt)

TInit == \E o \in DefaultOpts : Constructed(o)

ConnectTimeout == "CDP connection timeout."
ConnectFailed == "CDP connection failed."

\* connect has returned the connection.
Connected ==
    /\ connPromise = "resolved"
    /\ connTimer = FALSE
    /\ connResult = "connection"
    /\ firstEvent = "open"
    /\ lastFrame = "none"

\* No call of getExistingDebugPort is under way: nothing found, nothing asked.
Detected ==
    /\ marker = [file |-> "missing", lines |-> <<>>]
    /\ psOut = [ok |-> FALSE, lines |-> <<>>]
    /\ dpc = "done"
    /\ idx = 0
    /\ dport = 0
    /\ dresult = 0
    /\ probes = <<>>
    /\ scanned = FALSE
    /\ owner = "none"

\* Neither getFreePort nor waitForChromeDebugPort is under way.
Launched ==
    /\ srv = "closed"
    /\ aprom = "resolved"
    /\ aport = 0
    /\ aresult = 0
    /\ afail = "none"
    /\ wpc = "returned"
    /\ wnow = 0
    /\ wTimeout = 0
    /\ wstart = 0
    /\ polls = <<>>
    /\ wresult = "none"

\* An unset environment variable.
Unset == [set |-> FALSE, pad |-> FALSE, path |-> ""]

\* findChromeExecutable has not been called.
NotSearched ==
    /\ fplatform = "linux"
    /\ fgrok = Unset
    /\ fx = Unset
    /\ ffs = {}
    /\ fresult = "none"
    /\ fprev = "none"
    /\ fcalls = 0

Instances == {1, 2}

\* The fields a constructor sets, with the socket it is given and the
\* outcome of the calls sent on the instance.
NewInstance ==
    [ws |-> "open", nextId |-> 0, pending |-> {}, timers |-> {},
     handlers |-> {}, outcome |-> EmptyMap]

\* Two instances, just constructed.
PairNew ==
    /\ inst = [i \in Instances |-> NewInstance]
    /\ actor = 0

\* No generation result is at hand.
NothingToSave ==
    /\ saveArgs = [video |-> FALSE, all |-> FALSE]
    /\ mediaUrls = <<>>
    /\ selectedUrls = <<>>
    /\ spc = "done"
    /\ si = 0
    /\ savedPaths = <<>>

\* The value of `out` parseArgs starts from (the fields the model follows).
NewOut == [video |-> FALSE, output |-> <<>>, timeout |-> 0]

\* parseArgs is not running.
NotParsing ==
    /\ argv = <<>>
    /\ ai = 1
    /\ aout = NewOut
    /\ explicitOutput = FALSE
    /\ explicitTimeout = FALSE
    /\ positional = <<>>
    /\ apc = "done"

HelpersIdle == Launched /\ NotSearched /\ PairNew /\ NothingToSave /\ NotParsing

NoOff == [method |-> NoMethod, h |-> "none", threw |-> FALSE]

\* Nothing observed yet.
OInit ==
    /\ invoked = <<>>
    /\ arrivals = 0
    /\ lastOff = NoOff
    /\ closeCalls = 0

\* main before its first statement that matters here (line 826..828).
MInit ==
    /\ pc = "detect"
    /\ existingPort = 0
    /\ port = 0
    /\ ownedChrome = FALSE
    /\ chrome = "null"
    /\ cdp = "null"
    /\ grokTargetId = "null"
    /\ thrown = FALSE
    /\ stale = 0
    /\ cmds = <<>>
    /\ signals = <<>>
    /\ chromeAlive = FALSE
    /\ chromeKilled = FALSE
    /\ killTimer = FALSE

Init == TInit /\ MInit /\ OInit /\ Connected /\ Detected /\ HelpersIdle

\* A counter that stops increasing.
AllocIdStuck(n) == IF n < 1 THEN n + 1 ELSE n

\* const id = ++this.nextId
AllocId(n) == n + 1

\* The option read with || in place of ??: a timeout of zero falls back to the default.
EffectiveTimeoutOr(opt, def) == IF opt = NoOpt \/ opt = 0 THEN def ELSE opt

\* const timeoutMs = options?.timeoutMs ?? this.defaultTimeoutMs
EffectiveTimeout(opt, def) == Nullish(opt, def)

\* timeoutMs > 0 ? setTimeout(...) : null
ArmsTimer(ms) == ms > 0

\* send(method, params, options): opt is options.timeoutMs, throws tells whether
\* JSON.stringify(message) throws inside the promise executor (the executor's
\* exception rejects the promise; the entry and the timer were set before it).
\* A socket that is closing or closed discards the data of ws.send silently.
Send(opt, throws) ==
    /\ Len(calls) < MaxCalls
    /\ LET id == AllocId(nextId)
           c == Len(calls) + 1
           timeoutMs == EffectiveTimeout(opt, defaultTimeoutMs)
           timer == IF ArmsTimer(timeoutMs) THEN c ELSE 0
       IN /\ nextId' = id
          /\ calls' = Append(calls, [id |-> id, opt |-> opt])
          /\ timers' = IF timer # 0 THEN timers \cup {timer} ELSE timers
          /\ pending' = MapSet(pending, id, [call |-> c, timer |-> timer])
          /\ IF throws
             THEN /\ outcome' = Append(outcome,
                        [kind |-> "rejected", val |-> "TypeError", by |-> "send", rid |-> 0])
                  /\ attempts' = Append(attempts, 1)
                  /\ wire' = wire
             ELSE /\ outcome' = Append(outcome, Unsettled)
                  /\ attempts' = Append(attempts, 0)
                  /\ wire' = IF wsState = "open" THEN Append(wire, id) ELSE wire
    /\ UNCHANGED <<wsState, eventHandlers, defaultTimeoutMs>>

\* An expiry that empties the registry.
ExpireAll(p, id) == EmptyMap

\* this.pending.delete(id) of the timer callback
ExpireEntry(p, id) == MapDelete(p, id)

\* The callback of send's setTimeout:
\*   this.pending.delete(id); reject(new Error(`CDP timeout: ${method}`))
TimerFires(c) ==
    /\ c \in timers
    /\ timers' = timers \ {c}
    /\ pending' = ExpireEntry(pending, calls[c].id)
    /\ outcome' = Settle(outcome, c,
           [kind |-> "rejected", val |-> "CDP timeout", by |-> "timeout", rid |-> 0])
    /\ attempts' = Bump(attempts, c)
    /\ UNCHANGED <<wsState, nextId, eventHandlers, defaultTimeoutMs, calls, wire>>

\* if (msg.method) { handlers.forEach((h) => h(msg.params)) }: the dispatch throws
\* when a listener registered for msg.method throws.
\* this.eventHandlers.get(method), the listeners in insertion order; no
\* listeners when the map has no set for the method.
Handlers(method) ==
    IF method \in DOMAIN eventHandlers THEN eventHandlers[method] ELSE <<>>

DispatchThrows(msg) ==
    /\ msg.method # NoMethod
    /\ \E i \in 1..Len(Handlers(msg.method)) :
          Handlers(msg.method)[i] \in Throwing

\* if (msg.id)
HasId(msg) == msg.id # 0

\* const pending = this.pending.get(msg.id); if (pending)
Lookup(p, id) == id \in DOMAIN p

\* A lookup that takes the oldest entry, whatever the id of the message.
EntryOldest(p, id) == p[CHOOSE k \in DOMAIN p : \A j \in DOMAIN p : k <= j]

\* this.pending.get(msg.id), for an id that has an entry
Entry(p, id) == p[id]

\* if (msg.error?.message) pending.reject(new Error(msg.error.message));
\* else pending.resolve(msg.result);
ResponseOutcome(msg) ==
    IF msg.error # NoError /\ msg.error # EmptyMessage
    THEN [kind |-> "rejected", val |-> msg.error, by |-> "response", rid |-> msg.id]
    ELSE [kind |-> "resolved", val |-> msg.result, by |-> "response", rid |-> msg.id]

\* if (pending.timer) clearTimeout(pending.timer)
ClearTimeout(ts, t) == ts \ {t}

\* The 'message' listener of the socket; the whole body runs in try {} catch {}.
Receive(msg) ==
    /\ wsState # "closed"
    /\ IF ~DispatchThrows(msg) /\ HasId(msg) /\ Lookup(pending, msg.id)
       THEN LET p == Entry(pending, msg.id)
            IN /\ pending' = MapDelete(pending, msg.id)
               /\ timers' = ClearTimeout(timers, p.timer)
               /\ outcome' = Settle(outcome, p.call, ResponseOutcome(msg))
               /\ attempts' = Bump(attempts, p.call)
       ELSE UNCHANGED <<pending, timers, outcome, attempts>>
    /\ UNCHANGED <<wsState, nextId, eventHandlers, defaultTimeoutMs, calls, wire>>

\* The calls of the entries of a registry, and their timers.
EntryCalls(p) == {p[k].call : k \in DOMAIN p}
EntryTimers(p) == {p[k].timer : k \in DOMAIN p}

RECURSIVE RejectAll(_, _, _)
RejectAll(out, cs, o) ==
    IF cs = {} THEN out
    ELSE LET c == CHOOSE x \in cs : TRUE
         IN RejectAll(Settle(out, c, o), cs \ {c}, o)

\* A close handler that leaves the timers armed.
CloseTimersKept(ts, p) == ts

\* if (pending.timer) clearTimeout(pending.timer), for every entry
CloseTimers(ts, p) == ts \ EntryTimers(p)

\* The 'close' listener of the socket: every entry is deleted, its timer
\* cleared and its call rejected. The socket closes on close() or on its own
\* (the remote side, the network).
CloseEvent ==
    /\ wsState # "closed"
    /\ wsState' = "closed"
    /\ pending' = EmptyMap
    /\ timers' = CloseTimers(timers, pending)
    /\ outcome' = RejectAll(outcome, EntryCalls(pending),
           [kind |-> "rejected", val |-> "CDP connection closed.", by |-> "close", rid |-> 0])
    /\ attempts' = [c \in DOMAIN attempts |->
                       IF c \in EntryCalls(pending) THEN attempts[c] + 1 ELSE attempts[c]]
    /\ UNCHANGED <<nextId, eventHandlers, defaultTimeoutMs, calls, wire>>

\* A close() that starts the closing of the socket again, whatever its state.
CloseRestarts ==
    /\ wsState' = "closing"
    /\ UNCHANGED <<nextId, pending, eventHandlers, defaultTimeoutMs, timers, calls,
                   outcome, attempts, wire>>

\* close(): try { this.ws.close() } catch {}; the 'close' event follows later.
Close ==
    /\ wsState' = IF wsState = "open" THEN "closing" ELSE wsState
    /\ UNCHANGED <<nextId, pending, eventHandlers, defaultTimeoutMs, timers, calls,
                   outcome, attempts, wire>>

\* Set.add: a listener that is in the set already is not added again.
SetAdd(s, h) == IF \E i \in 1..Len(s) : s[i] = h THEN s ELSE Append(s, h)

\* on(method, handler)
On(method, h) ==
    /\ eventHandlers' = MapSet(eventHandlers, method, SetAdd(Handlers(method), h))
    /\ UNCHANGED <<wsState, nextId, pending, defaultTimeoutMs, timers, calls,
                   outcome, attempts, wire>>

Next ==
    \/ (\E opt \in TimeoutOpts, throws \in BOOLEAN : Send(opt, throws)) /\ UNCHANGED <<mvars, ovars, cvars, dvars, hvars>>
    \/ (\E c \in 1..Len(calls) : TimerFires(c)) /\ UNCHANGED <<mvars, ovars, cvars, dvars, hvars>>
    \/ (\E msg \in Messages : Receive(msg)) /\ UNCHANGED <<mvars, ovars, cvars, dvars, hvars>>
    \/ CloseEvent /\ UNCHANGED <<mvars, ovars, cvars, dvars, hvars>>
    \/ Close /\ UNCHANGED <<mvars, ovars, cvars, dvars, hvars>>
    \/ (\E m \in Methods, h \in Listeners : On(m, h)) /\ UNCHANGED <<mvars, ovars, cvars, dvars, hvars>>

Spec == Init /\ [][Next]_vars

----------------------------------------------------------------------------
(* CdpConnection, with its listeners observed *)

\* handlers.forEach((h) => h(msg.params)): the listeners are invoked in
\* insertion order; the first one that throws ends the loop.
LastInvoked(hs) ==
    IF \E i \in 1..Len(hs) : hs[i] \in Throwing
    THEN CHOOSE i \in 1..Len(hs) :
             hs[i] \in Throwing /\ \A j \in 1..(i - 1) : hs[j] \notin Throwing
    ELSE Len(hs)

\* if (msg.method) { const handlers = this.eventHandlers.get(msg.method);
\*                   if (handlers) handlers.forEach((h) => h(msg.params)); }
Dispatch(msg) ==
    IF msg.method = NoMethod THEN <<>>
    ELSE [i \in 1..LastInvoked(Handlers(msg.method)) |->
             [h |-> Handlers(msg.method)[i], method |-> msg.method, params |-> msg.params]]

\* The 'message' listener of the socket, with the invocations it makes.
Deliver(msg) ==
    /\ arrivals < MaxEvents
    /\ msg.params = arrivals + 1
    /\ Receive(msg)
    /\ invoked' = invoked \o Dispatch(msg)
    /\ arrivals' = arrivals + 1
    /\ UNCHANGED <<lastOff, closeCalls>>

\* cdp.on(method, handler)
OnObserved(method, h) ==
    /\ On(method, h)
    /\ lastOff' = NoOff
    /\ UNCHANGED <<invoked, arrivals, closeCalls>>

\* cdp.off(method, handler): the class CdpConnection declares constructor,
\* connect, on, send and close and no member off, so cdp.off is undefined and
\* the call throws a TypeError; the listeners stay as they are.
Off(method, h) ==
    /\ lastOff' = [method |-> method, h |-> h, threw |-> TRUE]
    /\ UNCHANGED <<tvars, invoked, arrivals, closeCalls>>

\* cdp.close(), counted
CloseObserved ==
    /\ closeCalls < MaxCloses
    /\ Close
    /\ closeCalls' = closeCalls + 1
    /\ UNCHANGED <<invoked, arrivals, lastOff>>

\* cdp.send(method, params), for at most MaxEventCalls calls
SendObserved(opt) ==
    /\ Len(calls) < MaxEventCalls
    /\ Send(opt, FALSE)
    /\ UNCHANGED ovars

NextEvents ==
    \/ (\E opt \in {NoOpt} : SendObserved(opt)) /\ UNCHANGED <<mvars, cvars, dvars, hvars>>
    \/ (\E c \in 1..Len(calls) : TimerFires(c)) /\ UNCHANGED <<mvars, ovars, cvars, dvars, hvars>>
    \/ (\E msg \in EventMessages : Deliver(msg)) /\ UNCHANGED <<mvars, cvars, dvars, hvars>>
    \/ CloseEvent /\ UNCHANGED <<mvars, ovars, cvars, dvars, hvars>>
    \/ CloseObserved /\ UNCHANGED <<mvars, cvars, dvars, hvars>>
    \/ (\E m \in EventMethods, h \in Listeners : OnObserved(m, h)) /\ UNCHANGED <<mvars, cvars, dvars, hvars>>
    \/ (\E m \in Methods, h \in Listeners \ Throwing : Off(m, h))
           /\ UNCHANGED <<mvars, cvars, dvars, hvars>>

InitEvents == Constructed(NoOpt) /\ MInit /\ OInit /\ Connected /\ Detected /\ HelpersIdle

SpecEvents == InitEvents /\ [][NextEvents]_vars

----------------------------------------------------------------------------
(* CdpConnection.connect *)

\* A promise whose last resolve or reject decides.
SettleLast(p, o) == o

\* resolve() and reject() of the promise connect awaits: the first call decides.
SettleOnce(p, o) == IF p = "pending" THEN o ELSE p

\* await new Promise(...); return new CdpConnection(ws, options): connect
\* returns the connection when the promise is resolved and throws its error
\* when it is rejected.
Returned(p) ==
    IF p = "pending" THEN "none"
    ELSE IF p = "resolved" THEN "connection"
    ELSE p

First(e) == IF firstEvent = "none" THEN e ELSE firstEvent

\* ws 'open': clearTimeout(timer); resolve()
ConnOpen ==
    /\ wsState = "connecting"
    /\ wsState' = "open"
    /\ connTimer' = FALSE
    /\ connPromise' = SettleOnce(connPromise, "resolved")
    /\ connResult' = Returned(connPromise')
    /\ firstEvent' = First("open")
    /\ lastFrame' = lastFrame
    /\ UNCHANGED <<nextId, pending, eventHandlers, defaultTimeoutMs, timers, calls,
                   outcome, attempts, wire>>

\* ws 'error': clearTimeout(timer); reject(new Error('CDP connection failed.'));
\* a socket that fails is closed by the runtime.
ConnError ==
    /\ wsState \in {"connecting", "open"}
    /\ wsState' = IF wsState = "connecting" THEN "closed" ELSE "closing"
    /\ connTimer' = FALSE
    /\ connPromise' = SettleOnce(connPromise, ConnectFailed)
    /\ connResult' = Returned(connPromise')
    /\ firstEvent' = First("error")
    /\ lastFrame' = lastFrame
    /\ UNCHANGED <<nextId, pending, eventHandlers, defaultTimeoutMs, timers, calls,
                   outcome, attempts, wire>>

\* setTimeout(() => reject(new Error('CDP connection timeout.')), timeoutMs);
\* the socket is left as it is.
ConnTimerFires ==
    /\ connTimer
    /\ connTimer' = FALSE
    /\ connPromise' = SettleOnce(connPromise, ConnectTimeout)
    /\ connResult' = Returned(connPromise')
    /\ firstEvent' = First("timer")
    /\ lastFrame' = lastFrame
    /\ UNCHANGED tvars

\* The socket of a connect that failed closes; it has no 'close' listener.
SocketCloses ==
    /\ connResult \notin {"none", "connection"}
    /\ wsState \in {"open", "closing"}
    /\ wsState' = "closed"
    /\ UNCHANGED <<nextId, pending, eventHandlers, defaultTimeoutMs, timers, calls,
                   outcome, attempts, wire, cvars>>

\* try { ... JSON.parse(data) ... } catch {}: the SyntaxError is swallowed and
\* no call hears of it.
OnParseError(out, p) == out

\* The 'message' listener given a frame that is not JSON: JSON.parse throws
\* before anything is looked at.
ReceiveUnparsable ==
    /\ wsState # "closed"
    /\ outcome' = OnParseError(outcome, pending)
    /\ lastFrame' = "unparsable"
    /\ UNCHANGED <<wsState, nextId, pending, eventHandlers, defaultTimeoutMs, timers, calls,
                   attempts, wire, connPromise, connTimer, connResult, firstEvent>>

\* if (msg.id) { const pending = this.pending.get(msg.id); if (pending) ... }:
\* a message with an id for which the registry has no entry.
Unmatched(msg) == HasId(msg) /\ ~Lookup(pending, msg.id)

\* The 'message' listener given a frame that parses to msg.
ReceiveFrame(msg) ==
    /\ Receive(msg)
    /\ lastFrame' = IF Unmatched(msg) THEN "unmatched" ELSE "other"
    /\ UNCHANGED <<connPromise, connTimer, connResult, firstEvent>>

\* The caller uses the connection only after connect returned it.
HasConnection == connResult = "connection"

NextConnect ==
    \/ ConnOpen /\ UNCHANGED <<mvars, ovars, dvars, hvars>>
    \/ ConnError /\ UNCHANGED <<mvars, ovars, dvars, hvars>>
    \/ ConnTimerFires /\ UNCHANGED <<mvars, ovars, dvars, hvars>>
    \/ SocketCloses /\ UNCHANGED <<mvars, ovars, dvars, hvars>>
    \/ (\E opt \in TimeoutOpts : HasConnection /\ SendObserved(opt))
           /\ UNCHANGED <<mvars, cvars, dvars, hvars>>
    \/ (\E c \in 1..Len(calls) : HasConnection /\ TimerFires(c))
           /\ UNCHANGED <<mvars, ovars, cvars, dvars, hvars>>
    \/ (\E msg \in Messages : HasConnection /\ ReceiveFrame(msg))
           /\ UNCHANGED <<mvars, ovars, dvars, hvars>>
    \/ (HasConnection /\ ReceiveUnparsable) /\ UNCHANGED <<mvars, ovars, dvars, hvars>>
    \/ (HasConnection /\ CloseEvent) /\ UNCHANGED <<mvars, ovars, cvars, dvars, hvars>>
    \/ (HasConnection /\ Close) /\ UNCHANGED <<mvars, ovars, cvars, dvars, hvars>>

\* new WebSocket(url) and the executor of the promise: the socket connects,
\* the timer is armed; the fields are those the constructor will set.
InitConnect ==
    /\ wsState = "connecting"
    /\ \E o \in DefaultOpts : Fields(o)
    /\ connPromise = "pending"
    /\ connTimer = TRUE
    /\ connResult = "none"
    /\ firstEvent = "none"
    /\ lastFrame = "none"
    /\ MInit
    /\ OInit
    /\ Detected
    /\ HelpersIdle

SpecConnect == InitConnect /\ [][NextConnect]_vars

----------------------------------------------------------------------------
(* getExistingDebugPort *)

\* The characters of a line: digits, and one that is no digit.
Digits == {"0", "1", "2"}
DigitValue(ch) == IF ch = "0" THEN 0 ELSE IF ch = "1" THEN 1 ELSE 2

\* NaN, of which the code only asks `> 0` (false).
NaN == -1

\* The contents of DevToolsActivePort, as lines.
MarkerContents ==
    { <<>>, << <<"x">> >>, << <<"0">> >>, << <<"1">>, <<"x">> >>, << <<"2">> >>,
      << <<"1", "x">> >>, << <<"1", "2">> >> }

MarkerFiles ==
    [file : {"missing", "unreadable"}, lines : {<<>>}]
    \cup [file : {"read"}, lines : MarkerContents]

\* The lines of the process table: whether the line contains
\* '--remote-debugging-port=' and what follows it, and the profile directory
\* of the process: profileDir itself ("this"), a directory whose path has
\* that of profileDir inside it ("longer"), or an unrelated one ("other").
PsTexts == { <<"x">>, <<"0">>, <<"1">>, <<"2">>, <<"1", "x">> }

PsLines ==
    [flag : {FALSE}, dir : {"other"}, text : {<<>>}]
    \cup [flag : {TRUE}, dir : {"this", "longer", "other"}, text : PsTexts]

\* line.includes(normProfile): a substring test
IncludesProfile(line) == line.dir \in {"this", "longer"}

\* The browser that listens on the port of a process is that process.
OwnerOf(line) == IF line.dir = "this" THEN "this" ELSE "other"

\* The browser that listens on the port the marker file names: the one that
\* wrote the file, or another one that got the port after the first had gone.
Owners == {"this", "other"}

PsTables == UNION {[1..n -> PsLines] : n \in 0..MaxLines}

PsOutcomes == [ok : {FALSE}, lines : {<<>>}] \cup [ok : {TRUE}, lines : PsTables]

\* The answers of fetch: res.ok, a response that is not ok, an exception
\* (connection refused, the 2 s abort).
Answers == {"ok", "notok", "throws"}

\* The longest prefix of digits: what \d+ matches at the start of the text.
RECURSIVE DigitPrefix(_)
DigitPrefix(t) ==
    IF t = <<>> \/ Head(t) \notin Digits THEN <<>>
    ELSE <<Head(t)>> \o DigitPrefix(Tail(t))

RECURSIVE Decimal(_)
Decimal(d) ==
    IF d = <<>> THEN 0
    ELSE 10 * Decimal(SubSeq(d, 1, Len(d) - 1)) + DigitValue(d[Len(d)])

\* parseInt(text, 10): the digits the text starts with, NaN when there is none.
ParseInt(t) == IF DigitPrefix(t) = <<>> THEN NaN ELSE Decimal(DigitPrefix(t))

\* content.split('\n')[0]
FirstLine(content) == IF content = <<>> THEN <<>> ELSE content[1]

\* A failure that no try block catches: it leaves getExistingDebugPort.
OnThrowEscapes(site) == "threw"

\* Where control goes when the statement at a site throws: the catch of
\* Method 1 leads to Method 2, the catch around a fetch of the loop to the
\* next line, the catch of Method 2 to `return null`.
OnThrow(site) ==
    IF site \in {"read", "fetch1"} THEN "ps"
    ELSE IF site = "fetch2" THEN "scan"
    ELSE "done"

\* A test that takes any response for a success.
ResAny(answer) == answer # "throws"

\* if (res.ok)
ResOk(answer) == answer = "ok"

\* readFile, split, parseInt, if (port > 0)
ReadMarker ==
    /\ dpc = "read"
    /\ IF marker.file # "read"
       THEN dpc' = OnThrow("read") /\ dport' = dport
       ELSE LET p == ParseInt(FirstLine(marker.lines))
            IN IF p > 0
               THEN dpc' = "fetch1" /\ dport' = p
               ELSE dpc' = "ps" /\ dport' = dport
    /\ UNCHANGED <<marker, psOut, idx, dresult, probes, scanned, owner>>

\* Method 1: fetch /json/version of the marker's port; if (res.ok) return port
FetchMarker(answer, who) ==
    /\ dpc = "fetch1"
    /\ probes' = Append(probes, [port |-> dport, res |-> answer])
    /\ owner' = IF answer = "ok" THEN who ELSE owner
    /\ IF answer = "throws"
       THEN dpc' = OnThrow("fetch1") /\ dresult' = dresult
       ELSE IF ResOk(answer)
            THEN dpc' = "done" /\ dresult' = dport
            ELSE dpc' = "ps" /\ dresult' = dresult
    /\ UNCHANGED <<marker, psOut, idx, dport, scanned>>

\* Method 2: execSync('ps aux'), split into lines
ListProcesses ==
    /\ dpc = "ps"
    /\ scanned' = TRUE
    /\ IF ~psOut.ok
       THEN dpc' = OnThrow("ps") /\ idx' = idx
       ELSE dpc' = "scan" /\ idx' = 1
    /\ UNCHANGED <<marker, psOut, dport, dresult, probes, owner>>

\* One turn of the loop up to its fetch; after the last line, return null
ScanLine ==
    /\ dpc = "scan"
    /\ IF idx > Len(psOut.lines)
       THEN dpc' = "done" /\ UNCHANGED <<idx, dport>>
       ELSE LET line == psOut.lines[idx]
                portMatch == DigitPrefix(line.text)
            IN IF line.flag /\ IncludesProfile(line) /\ portMatch # <<>> /\ ParseInt(portMatch) > 0
               THEN dpc' = "fetch2" /\ dport' = ParseInt(portMatch) /\ idx' = idx
               ELSE dpc' = "scan" /\ idx' = idx + 1 /\ dport' = dport
    /\ UNCHANGED <<marker, psOut, dresult, probes, scanned, owner>>

\* The fetch of the loop; if (res.ok) return port
FetchLine(answer) ==
    /\ dpc = "fetch2"
    /\ probes' = Append(probes, [port |-> dport, res |-> answer])
    /\ owner' = IF answer = "ok" THEN OwnerOf(psOut.lines[idx]) ELSE owner
    /\ IF answer = "throws"
       THEN dpc' = OnThrow("fetch2") /\ dresult' = dresult /\ idx' = idx + 1
       ELSE IF ResOk(answer)
            THEN dpc' = "done" /\ dresult' = dport /\ idx' = idx
            ELSE dpc' = "scan" /\ dresult' = dresult /\ idx' = idx + 1
    /\ UNCHANGED <<marker, psOut, dport, scanned>>

NextDetect ==
    \/ ReadMarker /\ UNCHANGED <<tvars, mvars, ovars, cvars, hvars>>
    \/ (\E a \in Answers, who \in Owners : FetchMarker(a, who)) /\ UNCHANGED <<tvars, mvars, ovars, cvars, hvars>>
    \/ ListProcesses /\ UNCHANGED <<tvars, mvars, ovars, cvars, hvars>>
    \/ ScanLine /\ UNCHANGED <<tvars, mvars, ovars, cvars, hvars>>
    \/ (\E a \in Answers : FetchLine(a)) /\ UNCHANGED <<tvars, mvars, ovars, cvars, hvars>>

\* A call of getExistingDebugPort, for any marker file and process table.
InitDetect ==
    /\ marker \in MarkerFiles
    /\ psOut \in PsOutcomes
    /\ dpc = "read"
    /\ idx = 0
    /\ dport = 0
    /\ dresult = 0
    /\ probes = <<>>
    /\ scanned = FALSE
    /\ owner = "none"
    /\ Constructed(NoOpt)
    /\ MInit
    /\ OInit
    /\ Connected
    /\ HelpersIdle

SpecDetect == InitDetect /\ [][NextDetect]_vars

----------------------------------------------------------------------------
(* getFreePort and waitForChromeDebugPort *)

\* The port the operating system assigns to the throwaway server.
AssignedPort == 9333

\* A close callback that resolves whatever close reported.
AfterCloseAlways(failed, err) == "resolved"

\* The callbacks of server.close: the first rejects, since no address could
\* be read; the second is `if (err) reject(err); else resolve(port)`.
AfterClose(failed, err) ==
    IF failed = "address" \/ err THEN "rejected" ELSE "resolved"

\* server.on('error', reject): listen(0, '127.0.0.1') fails; no callback runs
ListenFails ==
    /\ srv = "created"
    /\ aprom = "pending"
    /\ afail = "none"
    /\ aprom' = "rejected"
    /\ afail' = "bind"
    /\ UNCHANGED <<srv, aport, aresult, wpc, wnow, wTimeout, wstart, polls, wresult>>

\* The callback of listen: server.address() is read and server.close called
ListenCallback(good) ==
    /\ srv = "created"
    /\ afail = "none"
    /\ srv' = "listening"
    /\ aport' = IF good THEN AssignedPort ELSE aport
    /\ afail' = IF good THEN afail ELSE "address"
    /\ UNCHANGED <<aprom, aresult, wpc, wnow, wTimeout, wstart, polls, wresult>>

\* The callback of server.close, with err when close failed
CloseCallback(err) ==
    /\ srv = "listening"
    /\ srv' = "closed"
    /\ afail' = IF afail = "none" /\ err THEN "close" ELSE afail
    /\ aprom' = AfterClose(afail, err)
    /\ aresult' = IF aprom' = "resolved" THEN aport ELSE aresult
    /\ UNCHANGED <<aport, wpc, wnow, wTimeout, wstart, polls, wresult>>

\* The answers of a poll: fetch throws, a status that is not ok, a body
\* that is not JSON, a body without webSocketDebuggerUrl (or an empty one),
\* a body with one.
PollAnswers == {"refused", "status", "malformed", "missing", "address"}

TimeoutError == "Chrome debug port not ready"

\* A failed poll that ends the wait with its error.
AfterFailureThrows(answer) == "threw"

\* catch (error) { lastError = error } or lastError = new Error('Missing
\* webSocketDebuggerUrl'), then await sleep(200): the loop goes on.
AfterFailure(answer) == "sleep"

\* const start = Date.now(): main calls waitForChromeDebugPort once the port
\* is allocated (and the browser spawned).
StartWait ==
    /\ aprom = "resolved"
    /\ wpc = "idle"
    /\ wpc' = "check"
    /\ UNCHANGED <<srv, aprom, aport, aresult, afail, wnow, wTimeout, wstart, polls, wresult>>

\* while (Date.now() - start < timeoutMs) { ... fetch(...) }, and the throw
\* after the loop
CheckClock ==
    /\ wpc = "check"
    /\ IF wnow < wTimeout
       THEN wpc' = "fetch" /\ wstart' = wnow /\ wresult' = wresult
       ELSE wpc' = "threw" /\ wstart' = wstart /\ wresult' = TimeoutError
    /\ UNCHANGED <<srv, aprom, aport, aresult, afail, wnow, wTimeout, polls>>

\* The poll is answered: return version.webSocketDebuggerUrl, or go on
PollAnswered(answer) ==
    /\ wpc = "fetch"
    /\ polls' = Append(polls, [at |-> wstart, res |-> answer])
    /\ IF answer = "address"
       THEN wpc' = "returned" /\ wresult' = "address"
       ELSE wpc' = AfterFailure(answer) /\ wresult' = wresult
    /\ UNCHANGED <<srv, aprom, aport, aresult, afail, wnow, wTimeout, wstart>>

\* One poll interval passes: a sleep(200) ends with it, a fetch that has
\* no answer yet keeps waiting (it is given no timeout and no abort signal).
Tick ==
    /\ wpc \in {"fetch", "sleep"}
    /\ wnow < MaxTicks
    /\ wnow' = wnow + 1
    /\ wpc' = IF wpc = "sleep" THEN "check" ELSE wpc
    /\ UNCHANGED <<srv, aprom, aport, aresult, afail, wTimeout, wstart, polls, wresult>>

launchFrame == <<tvars, mvars, ovars, cvars, dvars, fvars, pvars, svars, avars>>

NextLaunch ==
    \/ ListenFails /\ UNCHANGED launchFrame
    \/ (\E good \in BOOLEAN : ListenCallback(good)) /\ UNCHANGED launchFrame
    \/ (\E err \in BOOLEAN : CloseCallback(err)) /\ UNCHANGED launchFrame
    \/ StartWait /\ UNCHANGED launchFrame
    \/ CheckClock /\ UNCHANGED launchFrame
    \/ (\E a \in PollAnswers : PollAnswered(a)) /\ UNCHANGED launchFrame
    \/ Tick /\ UNCHANGED launchFrame

\* net.createServer(), and the timeout the wait will be given.
InitLaunch ==
    /\ srv = "created"
    /\ aprom = "pending"
    /\ aport = 0
    /\ aresult = 0
    /\ afail = "none"
    /\ wpc = "idle"
    /\ wnow = 0
    /\ wTimeout \in 0..MaxWait
    /\ wstart = 0
    /\ polls = <<>>
    /\ wresult = "none"
    /\ Constructed(NoOpt)
    /\ MInit
    /\ OInit
    /\ Connected
    /\ Detected
    /\ NotSearched
    /\ PairNew
    /\ NothingToSave
    /\ NotParsing

SpecLaunch == InitLaunch /\ [][NextLaunch]_vars

----------------------------------------------------------------------------
(* findChromeExecutable *)

\* CHROME_CANDIDATES, in order: five paths for darwin, three for win32,
\* five for the other platforms.
Candidates ==
    [darwin |-> <<"d1", "d2", "d3", "d4", "d5">>,
     win32 |-> <<"w1", "w2", "w3">>,
     default |-> <<"u1", "u2", "u3", "u4", "u5">>]

Platforms == {"darwin", "win32", "linux"}

\* getCandidatesForPlatform(CHROME_CANDIDATES)
CandidatesFor(platform) ==
    IF platform = "darwin" /\ Len(Candidates.darwin) > 0 THEN Candidates.darwin
    ELSE IF platform = "win32" /\ Len(Candidates.win32) > 0 THEN Candidates.win32
    ELSE Candidates.default

\* The values of the two environment variables: unset, or a string made of
\* a path (possibly empty) with or without white space around it.
GrokValues == {Unset} \cup [set : {TRUE}, pad : BOOLEAN, path : {"", "ovA"}]
XValues == {Unset} \cup [set : {TRUE}, pad : BOOLEAN, path : {"", "ovB"}]

\* A string is falsy when it is undefined or empty.
Truthy(v) == v.set /\ (v.pad \/ v.path # "")

\* a || b
Or(a, b) == IF Truthy(a) THEN a ELSE b

\* v?.trim(): undefined stays undefined (no path), white space goes.
Trim(v) == v.path

Absent == "undefined"

\* A test that finds every path.
ExistsAlways(path, fs) == TRUE

\* fs.existsSync(path)
Exists(path, fs) == path \in fs

\* The first candidate that exists, in list order.
FirstExisting(list, fs) ==
    IF \E i \in 1..Len(list) : Exists(list[i], fs)
    THEN list[CHOOSE i \in 1..Len(list) :
                 Exists(list[i], fs) /\ \A j \in 1..(i - 1) : ~Exists(list[j], fs)]
    ELSE Absent

FindChromeExecutable(grok, x, platform, fs) ==
    LET override == Trim(Or(grok, x))
    IN IF override # "" /\ Exists(override, fs) THEN override
       ELSE FirstExisting(CandidatesFor(platform), fs)

\* A call of findChromeExecutable; the environment and the files stay.
Find ==
    /\ fcalls < MaxFinds
    /\ fcalls' = fcalls + 1
    /\ fprev' = fresult
    /\ fresult' = FindChromeExecutable(fgrok, fx, fplatform, ffs)
    /\ UNCHANGED <<fplatform, fgrok, fx, ffs>>

findFrame == <<tvars, mvars, ovars, cvars, dvars, lvars, pvars, svars, avars>>

NextFind ==
    \/ Find /\ UNCHANGED findFrame

\* The paths that may exist on a platform: its candidates and the overrides.
PathsOn(platform) ==
    {"ovA", "ovB"} \cup {CandidatesFor(platform)[i] : i \in 1..Len(CandidatesFor(platform))}

InitFind ==
    /\ fplatform \in Platforms
    /\ fgrok \in GrokValues
    /\ fx \in XValues
    /\ ffs \in SUBSET PathsOn(fplatform)
    /\ fresult = "none"
    /\ fprev = "none"
    /\ fcalls = 0
    /\ Constructed(NoOpt)
    /\ MInit
    /\ OInit
    /\ Connected
    /\ Detected
    /\ Launched
    /\ PairNew
    /\ NothingToSave
    /\ NotParsing

SpecFind == InitFind /\ [][NextFind]_vars

----------------------------------------------------------------------------
(* Two CdpConnection instances *)

\* Fields that every instance shares (static members).
OnEveryInstance(all, i, new) == [j \in DOMAIN all |-> new]

\* nextId, pending, eventHandlers and defaultTimeoutMs are instance fields,
\* and ws is the socket the instance was constructed with: a method that
\* writes this.x writes the field of the instance it was called on.
OnInstance(all, i, new) == [all EXCEPT ![i] = new]

\* inst[i].send(method, params), with or without a timer
PairSend(i, timed) ==
    /\ inst[i].nextId < MaxPairCalls
    /\ LET me == inst[i]
           id == AllocId(me.nextId)
       IN inst' = OnInstance(inst, i,
              [me EXCEPT !.nextId = id,
                         !.pending = @ \cup {id},
                         !.timers = IF timed THEN @ \cup {id} ELSE @,
                         !.outcome = MapSet(@, id, "pending")])
    /\ actor' = i

\* The 'message' listener of inst[i] gets a response with the id
PairResponse(i, id) ==
    /\ inst[i].ws = "open"
    /\ LET me == inst[i]
       IN inst' = IF id \in me.pending
                  THEN OnInstance(inst, i,
                           [me EXCEPT !.pending = @ \ {id},
                                      !.timers = @ \ {id},
                                      !.outcome = MapSet(@, id, "resolved")])
                  ELSE inst
    /\ actor' = i

\* The 'message' listener of inst[i] gets an event: its listeners are invoked
PairEvent(i) ==
    /\ inst[i].ws = "open"
    /\ inst' = inst
    /\ actor' = i

\* The timer of a call of inst[i] fires
PairTimeout(i, id) ==
    /\ id \in inst[i].timers
    /\ LET me == inst[i]
       IN inst' = OnInstance(inst, i,
              [me EXCEPT !.pending = @ \ {id},
                         !.timers = @ \ {id},
                         !.outcome = MapSet(@, id, "CDP timeout")])
    /\ actor' = i

\* The 'close' listener of inst[i]
PairClose(i) ==
    /\ inst[i].ws = "open"
    /\ LET me == inst[i]
       IN inst' = OnInstance(inst, i,
              [me EXCEPT !.ws = "closed",
                         !.pending = {},
                         !.timers = @ \ me.pending,
                         !.outcome = [k \in DOMAIN @ |->
                             IF k \in me.pending THEN "CDP connection closed." ELSE @[k]]])
    /\ actor' = i

\* inst[i].on(method, handler)
PairOn(i, h) ==
    /\ inst' = OnInstance(inst, i, [inst[i] EXCEPT !.handlers = @ \cup {h}])
    /\ actor' = i

pairFrame == <<tvars, mvars, ovars, cvars, dvars, lvars, fvars, svars, avars>>

NextPair ==
    \/ (\E i \in Instances, timed \in BOOLEAN : PairSend(i, timed)) /\ UNCHANGED pairFrame
    \/ (\E i \in Instances, id \in 1..MaxPairCalls : PairResponse(i, id))
           /\ UNCHANGED pairFrame
    \/ (\E i \in Instances : PairEvent(i)) /\ UNCHANGED pairFrame
    \/ (\E i \in Instances, id \in 1..MaxPairCalls : PairTimeout(i, id))
           /\ UNCHANGED pairFrame
    \/ (\E i \in Instances : PairClose(i)) /\ UNCHANGED pairFrame
    \/ (\E i \in Instances, h \in Listeners \ Throwing : PairOn(i, h)) /\ UNCHANGED pairFrame

InitPair ==
    /\ PairNew
    /\ Constructed(NoOpt)
    /\ MInit
    /\ OInit
    /\ Connected
    /\ Detected
    /\ Launched
    /\ NotSearched
    /\ NothingToSave
    /\ NotParsing

SpecPair == InitPair /\ [][NextPair]_vars

----------------------------------------------------------------------------
(* main: select and download the generated media *)

\* The resolutions the page reports for an image (0: the image is not found).
Resolutions == {0, 1, 2}

\* What runImageMode or runVideoMode returns: at least one URL (both throw on
\* none); URL k is the k-th of the list.
MediaResults ==
    UNION { { [k \in 1..n |-> [url |-> k, res |-> r[k]]] : r \in [1..n -> Resolutions] }
            : n \in 1..MaxUrls }

\* path.resolve(args.output), and `${baseName}-${n}${ext}` beside it.
OutputPath == [numbered |-> 0]
Numbered(n) == [numbered |-> n]

\* scores.sort((a, b) => b.res - a.res)[0]: the first URL of highest resolution
\* (the sort is stable).
Best(urls) ==
    LET k == CHOOSE k \in 1..Len(urls) :
                 /\ \A j \in 1..Len(urls) : urls[j].res <= urls[k].res
                 /\ \A j \in 1..(k - 1) : urls[j].res < urls[k].res
    IN urls[k]

\* const downloadUrls = args.all ? mediaUrls : selectedUrls
DownloadUrls == IF saveArgs.all THEN mediaUrls ELSE selectedUrls

\* The file of the n-th download.
OutOf(n, count) == IF count = 1 THEN OutputPath ELSE Numbered(n)

\* "Pick best", then the preparation of the output directory; the evaluate of
\* the scores and mkdir can throw, and nothing inside the try block catches.
Select(ok) ==
    /\ spc = "select"
    /\ IF ~ok
       THEN /\ spc' = "failed"
            /\ UNCHANGED selectedUrls
       ELSE /\ selectedUrls' =
                   IF ~saveArgs.video /\ ~saveArgs.all /\ Len(mediaUrls) > 1
                   THEN <<Best(mediaUrls)>>
                   ELSE mediaUrls
            /\ spc' = "download"
    /\ si' = 0
    /\ UNCHANGED <<saveArgs, mediaUrls, savedPaths>>

\* One turn of the download loop: a failed download is logged and skipped.
Download(ok) ==
    /\ spc = "download"
    /\ si < Len(DownloadUrls)
    /\ savedPaths' = IF ok THEN Append(savedPaths, OutOf(si + 1, Len(DownloadUrls)))
                     ELSE savedPaths
    /\ si' = si + 1
    /\ UNCHANGED <<saveArgs, mediaUrls, selectedUrls, spc>>

\* After the loop: if (savedPaths.length === 0) throw new Error('All downloads failed.')
CheckSaved ==
    /\ spc = "download"
    /\ si = Len(DownloadUrls)
    /\ spc' = IF savedPaths = <<>> THEN "failed" ELSE "done"
    /\ UNCHANGED <<saveArgs, mediaUrls, selectedUrls, si, savedPaths>>

saveFrame == <<tvars, mvars, ovars, cvars, dvars, lvars, fvars, pvars, avars>>

NextSave ==
    \/ (\E ok \in BOOLEAN : Select(ok)) /\ UNCHANGED saveFrame
    \/ (\E ok \in BOOLEAN : Download(ok)) /\ UNCHANGED saveFrame
    \/ CheckSaved /\ UNCHANGED saveFrame

InitSave ==
    /\ saveArgs \in [video : BOOLEAN, all : BOOLEAN]
    /\ mediaUrls \in MediaResults
    /\ selectedUrls = <<>>
    /\ spc = "select"
    /\ si = 0
    /\ savedPaths = <<>>
    /\ Constructed(NoOpt)
    /\ MInit
    /\ OInit
    /\ Connected
    /\ Detected
    /\ Launched
    /\ NotSearched
    /\ PairNew
    /\ NotParsing

SpecSave == InitSave /\ [][NextSave]_vars

----------------------------------------------------------------------------
(* parseArgs *)

\* Strings are sequences of characters: startsWith and parseInt read them.
\* -h, --help, --json and --all: flags that set a field and read no value.
Switches ==
    { <<"-", "h">>, <<"-", "-", "h", "e", "l", "p">>, <<"-", "-", "j", "s", "o", "n">>,
      <<"-", "-", "a", "l", "l">> }
Video == { <<"-", "v">>, <<"-", "-", "v", "i", "d", "e", "o">> }
Output == { <<"-", "o">>, <<"-", "-", "o", "u", "t", "p", "u", "t">> }
Timeout == <<"-", "-", "t", "i", "m", "e", "o", "u", "t">>
\* -p, --prompt, --profile, -r and --reference: flags that read the next
\* argument into a field the model does not follow.
OtherValueFlags ==
    { <<"-", "p">>, <<"-", "-", "p", "r", "o", "m", "p", "t">>,
      <<"-", "-", "p", "r", "o", "f", "i", "l", "e">>,
      <<"-", "r">>, <<"-", "-", "r", "e", "f", "e", "r", "e", "n", "c", "e">> }

\* The flags parseArgs knows, and those of them that read the next argument.
ValueFlags == Output \cup {Timeout} \cup OtherValueFlags
KnownFlags == Switches \cup Video \cup ValueFlags

\* The arguments of the model: flags that parseArgs knows, one that it does not,
\* a word and a number.
Tokens ==
    { <<"-", "v">>, <<"-", "o">>, Timeout, <<"-", "-", "a", "l", "l">>, <<"-", "r">>, <<"-", "x">>, <<"c", "a", "t">>, <<"1", "2">> }

ArgLists == UNION { [1..n -> Tokens] : n \in 0..MaxArgs }

\* a.startsWith('-')
StartsWithDash(a) == a # <<>> /\ Head(a) = "-"

\* argv[++i] || fallback: a missing argument and an empty one give the fallback.
NextOr(k, fallback) ==
    IF k <= Len(argv) /\ argv[k] # <<>> THEN argv[k] ELSE fallback

GrokImagePng == <<"g", "r", "o", "k", "-", "i", "m", "a", "g", "e", ".", "p", "n", "g">>
GrokVideoMp4 == <<"g", "r", "o", "k", "-", "v", "i", "d", "e", "o", ".", "m", "p", "4">>
ImageTimeout == 120
VideoTimeout == 180

\* if (!explicit) field = default: a default replaces only what was not given.
DefaultedAlways(explicit, given, default) == default

Defaulted(explicit, given, default) == IF explicit THEN given ELSE default

\* One turn of the loop over argv.
Turn ==
    /\ apc = "loop"
    /\ ai <= Len(argv)
    /\ LET a == argv[ai] IN
       IF a \in Switches
       THEN /\ ai' = ai + 1
            /\ UNCHANGED <<aout, explicitOutput, explicitTimeout, positional, apc>>
       ELSE IF a \in Video
       THEN /\ aout' = [aout EXCEPT !.video = TRUE]
            /\ ai' = ai + 1
            /\ UNCHANGED <<explicitOutput, explicitTimeout, positional, apc>>
       ELSE IF a \in Output
       THEN /\ aout' = [aout EXCEPT !.output = NextOr(ai + 1, <<>>)]
            /\ explicitOutput' = TRUE
            /\ ai' = ai + 2
            /\ UNCHANGED <<explicitTimeout, positional, apc>>
       ELSE IF a = Timeout
       THEN /\ aout' = [aout EXCEPT !.timeout = ParseInt(NextOr(ai + 1, <<"0">>))]
            /\ explicitTimeout' = TRUE
            /\ ai' = ai + 2
            /\ UNCHANGED <<explicitOutput, positional, apc>>
       ELSE IF a \in OtherValueFlags
       THEN /\ ai' = ai + 2
            /\ UNCHANGED <<aout, explicitOutput, explicitTimeout, positional, apc>>
       ELSE IF StartsWithDash(a)
       THEN /\ apc' = "error"
            /\ UNCHANGED <<aout, explicitOutput, explicitTimeout, positional, ai>>
       ELSE /\ positional' = Append(positional, a)
            /\ ai' = ai + 1
            /\ UNCHANGED <<aout, explicitOutput, explicitTimeout, apc>>
    /\ UNCHANGED argv

\* After the loop: the defaults of the mode, and the return.
Return ==
    /\ apc = "loop"
    /\ ai > Len(argv)
    /\ aout' = [aout EXCEPT
                   !.output = Defaulted(explicitOutput, @,
                                  IF aout.video THEN GrokVideoMp4 ELSE GrokImagePng),
                   !.timeout = Defaulted(explicitTimeout, @,
                                  IF aout.video THEN VideoTimeout ELSE ImageTimeout)]
    /\ apc' = "done"
    /\ UNCHANGED <<argv, ai, explicitOutput, explicitTimeout, positional>>

argsFrame == <<tvars, mvars, ovars, cvars, dvars, lvars, fvars, pvars, svars>>

NextArgs ==
    \/ Turn /\ UNCHANGED argsFrame
    \/ Return /\ UNCHANGED argsFrame

InitArgs ==
    /\ argv \in ArgLists
    /\ ai = 1
    /\ aout = NewOut
    /\ explicitOutput = FALSE
    /\ explicitTimeout = FALSE
    /\ positional = <<>>
    /\ apc = "loop"
    /\ Constructed(NoOpt)
    /\ MInit
    /\ OInit
    /\ Connected
    /\ Detected
    /\ Launched
    /\ NotSearched
    /\ PairNew
    /\ NothingToSave

SpecArgs == InitArgs /\ [][NextArgs]_vars

----------------------------------------------------------------------------
(* main: launch or reuse the browser, drive it, tear down *)

\* The port a running browser answers on, and the one getFreePort returns.
ReusedPort == 9222
FreePort == 9333

\* The awaited steps of the try block after the tab was created, in order,
\* and the method each one sends.
SetupOrder == <<"attach", "pageEnable", "runtimeEnable", "domEnable", "networkEnable", "run">>
SetupMethod == <<"Target.attachToTarget", "Page.enable", "Runtime.enable", "DOM.enable",
                 "Network.enable">>

\* A detection whose result is not looked at: the run launches a browser anyway.
DetectThenLaunch(found) ==
    /\ pc = "detect"
    /\ existingPort' = found
    /\ port' = port
    /\ pc' = "find"
    /\ UNCHANGED <<ownedChrome, chrome, cdp, grokTargetId, thrown, stale, cmds, signals,
                   chromeAlive, chromeKilled, killTimer>>

\* const existingPort = await getExistingDebugPort(profileDir);
\* if (existingPort) { port = existingPort } else { ... }
Detect(found) ==
    /\ pc = "detect"
    /\ existingPort' = found
    /\ IF found # 0
       THEN port' = found /\ pc' = "waitReady"
       ELSE port' = port /\ pc' = "find"
    /\ UNCHANGED <<ownedChrome, chrome, cdp, grokTargetId, thrown, stale, cmds, signals,
                   chromeAlive, chromeKilled, killTimer>>

\* A search that fails only after a port was taken.
FindChromeAfterPort(found) ==
    /\ pc = "find"
    /\ IF found THEN pc' = "port" /\ thrown' = thrown /\ port' = port
                ELSE pc' = "exit" /\ thrown' = TRUE /\ port' = FreePort
    /\ UNCHANGED <<existingPort, ownedChrome, chrome, cdp, grokTargetId, stale, cmds,
                   signals, chromeAlive, chromeKilled, killTimer>>

\* const chromePath = findChromeExecutable(); if (!chromePath) throw ...
\* The throw is outside the try block: the finally block does not run.
FindChrome(found) ==
    /\ pc = "find"
    /\ IF found THEN pc' = "port" /\ thrown' = thrown
                ELSE pc' = "exit" /\ thrown' = TRUE
    /\ UNCHANGED <<existingPort, port, ownedChrome, chrome, cdp, grokTargetId, stale, cmds,
                   signals, chromeAlive, chromeKilled, killTimer>>

\* port = await getFreePort(), outside the try block as well
AllocatePort(ok) ==
    /\ pc = "port"
    /\ IF ok THEN port' = FreePort /\ pc' = "spawn" /\ thrown' = thrown
             ELSE port' = port /\ pc' = "exit" /\ thrown' = TRUE
    /\ UNCHANGED <<existingPort, ownedChrome, chrome, cdp, grokTargetId, stale, cmds,
                   signals, chromeAlive, chromeKilled, killTimer>>

\* A spawn that keeps the handle and forgets to claim the browser.
SpawnUnowned ==
    /\ pc = "spawn"
    /\ chrome' = "proc"
    /\ chromeAlive' = TRUE
    /\ pc' = "waitReady"
    /\ UNCHANGED <<existingPort, port, ownedChrome, cdp, grokTargetId, thrown, stale, cmds,
                   signals, chromeKilled, killTimer>>

\* chrome = spawn(chromePath, [...]); chrome.unref(); ownedChrome = true;
Spawn ==
    /\ pc = "spawn"
    /\ chrome' = "proc"
    /\ chromeAlive' = TRUE
    /\ ownedChrome' = TRUE
    /\ pc' = "waitReady"
    /\ UNCHANGED <<existingPort, port, cdp, grokTargetId, thrown, stale, cmds, signals,
                   chromeKilled, killTimer>>

\* const wsUrl = await waitForChromeDebugPort(port, 30_000);
WaitReady(ok) ==
    /\ pc = "waitReady"
    /\ IF ok THEN pc' = "connect" /\ thrown' = thrown
             ELSE pc' = "finallyTab" /\ thrown' = TRUE
    /\ UNCHANGED <<existingPort, port, ownedChrome, chrome, cdp, grokTargetId, stale, cmds,
                   signals, chromeAlive, chromeKilled, killTimer>>

\* cdp = await CdpConnection.connect(wsUrl, 30_000, { defaultTimeoutMs: 30_000 });
Connect(ok) ==
    /\ pc = "connect"
    /\ IF ok THEN cdp' = "open" /\ pc' = "getTargets" /\ thrown' = thrown
             ELSE cdp' = cdp /\ pc' = "finallyTab" /\ thrown' = TRUE
    /\ UNCHANGED <<existingPort, port, ownedChrome, chrome, grokTargetId, stale, cmds,
                   signals, chromeAlive, chromeKilled, killTimer>>

\* try { const { targetInfos } = await cdp.send('Target.getTargets', {});
\*       const stale = targetInfos.filter(...) ... } catch {}
\* n is the number of stale tabs of a successful answer; a failure is swallowed.
GetTargets(ok, n) ==
    /\ pc = "getTargets"
    /\ cmds' = Append(cmds, "Target.getTargets")
    /\ IF ok /\ n > 0
       THEN stale' = n /\ pc' = "closeStale"
       ELSE stale' = stale /\ pc' = "createTarget"
    /\ UNCHANGED <<existingPort, port, ownedChrome, chrome, cdp, grokTargetId, thrown,
                   signals, chromeAlive, chromeKilled, killTimer>>

\* for (const t of stale) try { await cdp.send('Target.closeTarget', ...) } catch {}
CloseStale ==
    /\ pc = "closeStale"
    /\ cmds' = Append(cmds, "Target.closeTarget")
    /\ stale' = stale - 1
    /\ pc' = IF stale > 1 THEN "closeStale" ELSE "createTarget"
    /\ UNCHANGED <<existingPort, port, ownedChrome, chrome, cdp, grokTargetId, thrown,
                   signals, chromeAlive, chromeKilled, killTimer>>

\* const { targetId } = await cdp.send('Target.createTarget', { url: tabUrl });
\* grokTargetId = targetId;
CreateTarget(ok) ==
    /\ pc = "createTarget"
    /\ cmds' = Append(cmds, "Target.createTarget")
    /\ IF ok THEN grokTargetId' = "T1" /\ pc' = "attach" /\ thrown' = thrown
             ELSE grokTargetId' = grokTargetId /\ pc' = "finallyTab" /\ thrown' = TRUE
    /\ UNCHANGED <<existingPort, port, ownedChrome, chrome, cdp, stale, signals,
                   chromeAlive, chromeKilled, killTimer>>

\* Target.attachToTarget and the four enable commands, each awaited.
Setup(i, ok) ==
    /\ pc = SetupOrder[i]
    /\ cmds' = Append(cmds, SetupMethod[i])
    /\ IF ok THEN pc' = SetupOrder[i + 1] /\ thrown' = thrown
             ELSE pc' = "finallyTab" /\ thrown' = TRUE
    /\ UNCHANGED <<existingPort, port, ownedChrome, chrome, cdp, grokTargetId, stale,
                   signals, chromeAlive, chromeKilled, killTimer>>

\* runImageMode / runVideoMode, the selection, the downloads and the output:
\* page commands only, then the end of the try block or an exception.
RunMode(ok) ==
    /\ pc = "run"
    /\ cmds' = Append(cmds, "Runtime.evaluate")
    /\ pc' = "finallyTab"
    /\ thrown' = ~ok
    /\ UNCHANGED <<existingPort, port, ownedChrome, chrome, cdp, grokTargetId, stale,
                   signals, chromeAlive, chromeKilled, killTimer>>

\* A finally block that closes the browser whoever owns it.
ClosesBrowserAlways(owned) == TRUE

\* if (ownedChrome) ... cdp.send('Browser.close', ...)
ClosesBrowser(owned) == owned

\* A finally block that signals whatever handle it holds.
SignalsProcessAnyHandle(handle, owned) == TRUE

\* if (chrome && ownedChrome)
SignalsProcess(handle, owned) == handle # "null" /\ owned

\* A teardown command whose failure leaves the finally block.
AfterTeardownEscapes(ok, next) == IF ok THEN next ELSE "exit"

\* try { await cdp.send(..., { timeoutMs: 5_000 }) } catch {}: the command
\* answers, fails or times out, and the finally block goes on to its next step.
AfterTeardown(ok, next) == next

\* finally: if (cdp) { if (grokTargetId) try { await cdp.send('Target.closeTarget',
\*   { targetId: grokTargetId }, { timeoutMs: 5_000 }) } catch {} ... }
FinallyTab(ok) ==
    /\ pc = "finallyTab"
    /\ IF cdp # "null" /\ grokTargetId # "null"
       THEN /\ cmds' = Append(cmds, "Target.closeTarget")
            /\ pc' = AfterTeardown(ok, "finallyBrowser")
       ELSE /\ cmds' = cmds
            /\ pc' = "finallyBrowser"
    /\ UNCHANGED <<existingPort, port, ownedChrome, chrome, cdp, grokTargetId, thrown,
                   stale, signals, chromeAlive, chromeKilled, killTimer>>

\* if (cdp) { ... if (ownedChrome) try { await cdp.send('Browser.close', {},
\*   { timeoutMs: 5_000 }) } catch {} ... }: quits tells whether the browser
\* obeys and exits.
FinallyBrowser(quits, ok) ==
    /\ pc = "finallyBrowser"
    /\ IF cdp # "null" /\ ClosesBrowser(ownedChrome)
       THEN /\ cmds' = Append(cmds, "Browser.close")
            /\ chromeAlive' = IF quits THEN FALSE ELSE chromeAlive
            /\ pc' = AfterTeardown(ok, "finallyClose")
       ELSE /\ UNCHANGED <<cmds, chromeAlive>>
            /\ pc' = "finallyClose"
    /\ UNCHANGED <<existingPort, port, ownedChrome, chrome, cdp, grokTargetId, thrown,
                   stale, signals, chromeKilled, killTimer>>

\* if (cdp) { ... cdp.close(); }
FinallyClose ==
    /\ pc = "finallyClose"
    /\ cdp' = IF cdp # "null" THEN "closed" ELSE cdp
    /\ pc' = "finallyKill"
    /\ UNCHANGED <<existingPort, port, ownedChrome, chrome, grokTargetId, thrown, stale,
                   cmds, signals, chromeAlive, chromeKilled, killTimer>>

\* A finally block that signals the process only inside `if (cdp)`.
FinallyKillIfConnected ==
    /\ pc = "finallyKill"
    /\ IF cdp # "null" /\ chrome # "null" /\ ownedChrome
       THEN /\ killTimer' = TRUE
            /\ IF chromeAlive
               THEN signals' = Append(signals, "SIGTERM") /\ chromeKilled' = TRUE
               ELSE UNCHANGED <<signals, chromeKilled>>
       ELSE UNCHANGED <<killTimer, signals, chromeKilled>>
    /\ pc' = "exit"
    /\ UNCHANGED <<existingPort, port, ownedChrome, chrome, cdp, grokTargetId, thrown,
                   stale, cmds, chromeAlive>>

\* if (chrome && ownedChrome) {
\*   setTimeout(() => { if (!chrome.killed) chrome.kill('SIGKILL') }, 2_000).unref?.();
\*   try { chrome.kill('SIGTERM'); } catch {} }
\* kill delivers the signal and sets chrome.killed when the process still runs.
FinallyKill ==
    /\ pc = "finallyKill"
    /\ IF SignalsProcess(chrome, ownedChrome)
       THEN /\ killTimer' = TRUE
            /\ IF chromeAlive
               THEN signals' = Append(signals, "SIGTERM") /\ chromeKilled' = TRUE
               ELSE UNCHANGED <<signals, chromeKilled>>
       ELSE UNCHANGED <<killTimer, signals, chromeKilled>>
    /\ pc' = "exit"
    /\ UNCHANGED <<existingPort, port, ownedChrome, chrome, cdp, grokTargetId, thrown,
                   stale, cmds, chromeAlive>>

\* The callback of the SIGKILL timer: if (!chrome.killed) chrome.kill('SIGKILL')
KillTimerFires ==
    /\ killTimer
    /\ killTimer' = FALSE
    /\ IF ~chromeKilled /\ chromeAlive
       THEN signals' = Append(signals, "SIGKILL") /\ chromeKilled' = TRUE
       ELSE UNCHANGED <<signals, chromeKilled>>
    /\ UNCHANGED <<pc, existingPort, port, ownedChrome, chrome, cdp, grokTargetId, thrown,
                   stale, cmds, chromeAlive>>

\* The spawned browser exits: on its own, after Browser.close or after a signal.
ChromeExits ==
    /\ chromeAlive
    /\ chromeAlive' = FALSE
    /\ UNCHANGED <<pc, existingPort, port, ownedChrome, chrome, cdp, grokTargetId, thrown,
                   stale, cmds, signals, chromeKilled, killTimer>>

\* The end of the process: main().catch(... process.exit(1)) after an
\* exception, else the event loop runs empty (the SIGKILL timer is unref'ed
\* and does not keep it alive). Its timers die with it.
ProcessExit ==
    /\ pc = "exit"
    /\ pc' = "exited"
    /\ killTimer' = FALSE
    /\ UNCHANGED <<existingPort, port, ownedChrome, chrome, cdp, grokTargetId, thrown,
                   stale, cmds, signals, chromeAlive, chromeKilled>>

NextMain ==
    \/ (\E found \in {0, ReusedPort} : Detect(found)) /\ UNCHANGED <<tvars, ovars, cvars, dvars, hvars>>
    \/ (\E found \in BOOLEAN : FindChrome(found)) /\ UNCHANGED <<tvars, ovars, cvars, dvars, hvars>>
    \/ (\E ok \in BOOLEAN : AllocatePort(ok)) /\ UNCHANGED <<tvars, ovars, cvars, dvars, hvars>>
    \/ Spawn /\ UNCHANGED <<tvars, ovars, cvars, dvars, hvars>>
    \/ (\E ok \in BOOLEAN : WaitReady(ok)) /\ UNCHANGED <<tvars, ovars, cvars, dvars, hvars>>
    \/ (\E ok \in BOOLEAN : Connect(ok)) /\ UNCHANGED <<tvars, ovars, cvars, dvars, hvars>>
    \/ (\E ok \in BOOLEAN, n \in 0..MaxStale : GetTargets(ok, n)) /\ UNCHANGED <<tvars, ovars, cvars, dvars, hvars>>
    \/ CloseStale /\ UNCHANGED <<tvars, ovars, cvars, dvars, hvars>>
    \/ (\E ok \in BOOLEAN : CreateTarget(ok)) /\ UNCHANGED <<tvars, ovars, cvars, dvars, hvars>>
    \/ (\E i \in 1..Len(SetupMethod), ok \in BOOLEAN : Setup(i, ok)) /\ UNCHANGED <<tvars, ovars, cvars, dvars, hvars>>
    \/ (\E ok \in BOOLEAN : RunMode(ok)) /\ UNCHANGED <<tvars, ovars, cvars, dvars, hvars>>
    \/ (\E ok \in BOOLEAN : FinallyTab(ok)) /\ UNCHANGED <<tvars, ovars, cvars, dvars, hvars>>
    \/ (\E quits, ok \in BOOLEAN : FinallyBrowser(quits, ok))
           /\ UNCHANGED <<tvars, ovars, cvars, dvars, hvars>>
    \/ FinallyClose /\ UNCHANGED <<tvars, ovars, cvars, dvars, hvars>>
    \/ FinallyKill /\ UNCHANGED <<tvars, ovars, cvars, dvars, hvars>>
    \/ KillTimerFires /\ UNCHANGED <<tvars, ovars, cvars, dvars, hvars>>
    \/ ChromeExits /\ UNCHANGED <<tvars, ovars, cvars, dvars, hvars>>
    \/ ProcessExit /\ UNCHANGED <<tvars, ovars, cvars, dvars, hvars>>

\* The channel main connects is constructed with { defaultTimeoutMs: 30_000 }.
MainDefaultTimeout == 30000

InitMain == Constructed(MainDefaultTimeout) /\ MInit /\ OInit /\ Connected /\ Detected /\ HelpersIdle

SpecMain == InitMain /\ [][NextMain]_vars

\* The run reuses a browser it found: detect returned a port and nothing was spawned.
Borrowed == existingPort # 0 /\ chrome = "null"

\* C10: while the browser is borrowed, on every path through the run and its
\* teardown, main has sent no Browser.close command and no signal was
\* delivered to any process; it holds no process handle and arms no kill timer.
C10_BorrowedNeverTerminated ==
    existingPort # 0 =>
       /\ chrome = "null"
       /\ ~ownedChrome
       /\ \A i \in 1..Len(cmds) : cmds[i] # "Browser.close"
       /\ signals = <<>>
       /\ ~killTimer

\* C10 witness: a run on a borrowed browser failed after it had opened its
\* tab, and its teardown (tab closed, channel closed) ran to the end.
C10_Witness ==
    /\ Borrowed
    /\ pc = "exited"
    /\ thrown
    /\ grokTargetId # "null"
    /\ cdp = "closed"
    /\ cmds[Len(cmds)] = "Target.closeTarget"


----------------------------------------------------------------------------
(* Properties of the transport *)

Issued == 1..Len(calls)

IsSettled(c) == outcome[c].kind # "pending"

HasEntry(c) == calls[c].id \in DOMAIN pending

\* C1: a step that settles a call by a response is the arrival of a response
\* that bears the id assigned to that call, and the call's result or error is
\* the result or the error message of that very response, in whatever order
\* the responses of the outstanding calls arrive.
C1_NoCrossMatching ==
    [][\A c \in Issued :
          (~IsSettled(c) /\ outcome'[c].by = "response") =>
             \E msg \in Messages :
                /\ Receive(msg)
                /\ msg.id = calls[c].id
                /\ outcome'[c].rid = msg.id
                /\ outcome'[c].val \in {msg.result, msg.error}]_vars

\* C1 witness: two calls were outstanding together and the second one was
\* answered first; each holds the payload of its own response.
C1_Witness ==
    /\ Len(calls) = 2
    /\ outcome[2].by = "response" /\ outcome[2].rid = calls[2].id
    /\ ~IsSettled(1) /\ HasEntry(1)

\* C2: a settled call stays as it is: no later response, timer or close
\* invokes its resolve or reject again, changes its outcome, or adds or removes
\* the registry entry of its id.
C2_FirstWriterWins ==
    [][\A c \in Issued :
          IsSettled(c) =>
             /\ outcome'[c] = outcome[c]
             /\ attempts'[c] = attempts[c]
             /\ (calls[c].id \in DOMAIN pending') = (calls[c].id \in DOMAIN pending)]_vars

\* C3: the close of the channel rejects every unsettled call with the
\* channel-closed error and leaves the registry empty; a call rejected by the
\* close has no armed timer, is never settled again and its resolve or reject
\* was invoked exactly once.
C3_CloseRejectsAll ==
    [][/\ (wsState # "closed" /\ wsState' = "closed") =>
             /\ \A c \in Issued : ~IsSettled(c) =>
                   /\ outcome'[c].kind = "rejected"
                   /\ outcome'[c].by = "close"
                   /\ outcome'[c].val = "CDP connection closed."
             /\ DOMAIN pending' = {}
       /\ \A c \in Issued : outcome[c].by = "close" =>
             /\ c \notin timers
             /\ attempts[c] = 1
             /\ outcome'[c] = outcome[c]
             /\ attempts'[c] = attempts[c]]_vars

\* C3 witness: the channel closed while two calls were pending, one of them
\* with a timer; both failed with the channel-closed error.
C3_Witness ==
    /\ wsState = "closed"
    /\ Len(calls) = 2
    /\ outcome[1].by = "close" /\ outcome[2].by = "close"
    /\ \E c \in Issued : EffectiveTimeout(calls[c].opt, defaultTimeoutMs) > 0
    /\ DOMAIN pending = {}

\* C4: when the timeout of a call elapses before a response arrived, the call
\* has failed with the timeout error and its entry is gone; a response that
\* finds no entry for its id leaves the registry, the timers and every outcome
\* as they are.
C4_TimeoutThenLateResponse ==
    [][/\ \A c \in Issued : TimerFires(c) =>
             /\ outcome'[c].kind = "rejected"
             /\ outcome'[c].by = "timeout"
             /\ calls[c].id \notin DOMAIN pending'
       /\ \A msg \in Messages : (Receive(msg) /\ ~Lookup(pending, msg.id)) =>
             UNCHANGED <<pending, timers, outcome, attempts>>]_vars

\* C5: every issued call is settled or is tracked by the registry of a
\* channel that has not closed.
C5_NoCallDropped ==
    \A c \in Issued :
       \/ IsSettled(c)
       \/ /\ wsState # "closed"
          /\ HasEntry(c)
          /\ pending[calls[c].id].call = c

\* C6: the ids are strictly increasing in issue order, none is above the
\* counter, and the entry registered under an id belongs to the one call that
\* was assigned that id.
C6_IdsUniqueAndMonotonic ==
    /\ \A c \in Issued : calls[c].id >= 1 /\ calls[c].id <= nextId
    /\ \A c, d \in Issued : c < d => calls[c].id < calls[d].id
    /\ \A k \in DOMAIN pending :
          /\ pending[k].call \in Issued
          /\ calls[pending[k].call].id = k
    /\ \A c \in Issued : (~IsSettled(c) /\ wsState = "open") => HasEntry(c)

\* C6 witness: two calls are pending at the same time under two ids.
C6_Witness ==
    /\ Len(calls) = 2
    /\ ~IsSettled(1) /\ ~IsSettled(2)
    /\ HasEntry(1) /\ HasEntry(2)
    /\ Cardinality(DOMAIN pending) = 2

\* C7: a response without a method that bears a pending id and carries an
\* error field fails the call with the remote message; a call is resolved only
\* by a response without an error field.
C7_ErrorFieldRejects ==
    [][\A msg \in Messages :
          (/\ Receive(msg)
           /\ msg.method = NoMethod
           /\ Lookup(pending, msg.id)
           /\ ~IsSettled(pending[msg.id].call)
           /\ msg.error # NoError) =>
             /\ outcome'[pending[msg.id].call].kind = "rejected"
             /\ outcome'[pending[msg.id].call].val = msg.error]_vars

\* C8: the expiry of the timeout of one call leaves every other call as it
\* was: its outcome, its timer and its registry entry.
C8_ExpiryIsLocal ==
    [][\A c \in Issued : TimerFires(c) =>
          /\ calls[c].id \notin DOMAIN pending'
          /\ \A d \in Issued \ {c} :
                /\ outcome'[d] = outcome[d]
                /\ attempts'[d] = attempts[d]
                /\ (d \in timers') = (d \in timers)
                /\ HasEntry(d) =>
                      /\ calls[d].id \in DOMAIN pending'
                      /\ pending'[calls[d].id] = pending[calls[d].id]]_vars

\* C8 witness: the first call timed out while the second is still pending
\* with its entry and its timer.
C8_Witness ==
    /\ Len(calls) = 2
    /\ outcome[1].by = "timeout"
    /\ ~HasEntry(1)
    /\ ~IsSettled(2) /\ HasEntry(2) /\ 2 \in timers

\* The timeout the interface promises for a call: the one given with the
\* call, else the one the channel was constructed with.
PromisedTimeout(c) == IF calls[c].opt = NoOpt THEN defaultTimeoutMs ELSE calls[c].opt

\* C9: a pending call has an armed timer exactly when its per-call timeout,
\* or without one the channel's default, is positive; a call whose timeout is
\* zero never has a timer and never fails with the timeout error: only its
\* response, the close of the channel or the failure of the write settles it.
C9_TimeoutSelection ==
    \A c \in Issued :
       /\ (PromisedTimeout(c) > 0 /\ ~IsSettled(c)) => c \in timers
       /\ PromisedTimeout(c) = 0 =>
             /\ c \notin timers
             /\ outcome[c].by \in {"none", "response", "close", "send"}

\* C9 witness: on a channel whose default is positive a call given the
\* timeout zero was settled by the close while a call without a timeout of
\* its own timed out.
C9_Witness ==
    /\ defaultTimeoutMs > 0
    /\ \E c \in Issued : calls[c].opt = 0 /\ outcome[c].by = "close"
    /\ \E c \in Issued : calls[c].opt = NoOpt /\ outcome[c].by = "timeout"

\* C11: when the grace period of an owned process has run out (the SIGKILL
\* timer fired) and the process is still alive, it was sent the graceful
\* termination signal first and the forceful kill after it.
C11_GracefulThenForceful ==
    (/\ pc = "exit"
     /\ SignalsProcess(chrome, ownedChrome)
     /\ ~killTimer
     /\ chromeAlive) => signals = <<"SIGTERM", "SIGKILL">>

\* C12: nothing is allocated or spawned before detect has returned; a process
\* is spawned and a port allocated only after detect returned absent; when
\* detect returned a port, the run holds no process and the port it waits on
\* and connects to is the detected one.
C12_DetectBeforeLaunch ==
    /\ pc = "detect" => (chrome = "null" /\ port = 0 /\ ~ownedChrome /\ cdp = "null")
    /\ (chrome # "null" \/ ownedChrome \/ port = FreePort \/ pc \in {"find", "port", "spawn"})
          => existingPort = 0
    /\ existingPort # 0 => (chrome = "null" /\ ~ownedChrome /\ port = existingPort)
    /\ cdp # "null" => port = (IF existingPort # 0 THEN existingPort ELSE FreePort)

\* C12 witness: detect returned a port and the run connected to it, having
\* spawned nothing.
C12_Witness ==
    /\ existingPort = ReusedPort
    /\ cdp = "open"
    /\ port = ReusedPort
    /\ chrome = "null"

\* The listener h is registered for the method.
Registered(method, h) ==
    \E i \in 1..Len(Handlers(method)) : Handlers(method)[i] = h

\* The params the listener h was invoked with for the method, in order.
ParamsSeen(log, method, h) ==
    LET mine(e) == e.h = h /\ e.method = method
        sel == SelectSeq(log, mine)
    IN [i \in 1..Len(sel) |-> sel[i].params]

\* A push message: it carries a method and no id.
IsPush(msg) == msg.method # NoMethod /\ ~HasId(msg)

\* C13: a push message with method M invokes every listener registered for M
\* once more, and no listener registered for another name.
C13_EveryListenerInvoked ==
    [][\A msg \in EventMessages : (Deliver(msg) /\ IsPush(msg)) =>
          \A m \in EventMethods, h \in Listeners :
              Len(ParamsSeen(invoked', m, h)) =
                  Len(ParamsSeen(invoked, m, h))
                  + (IF m = msg.method /\ Registered(m, h) THEN 1 ELSE 0)]_vars

\* C14: a listener sees the events of a name in arrival order and misses none:
\* each push message of that name is the next entry of what the listener saw.
C14_ArrivalOrder ==
    [][\A msg \in EventMessages : (Deliver(msg) /\ IsPush(msg)) =>
          \A h \in Listeners : Registered(msg.method, h) =>
              ParamsSeen(invoked', msg.method, h) =
                  Append(ParamsSeen(invoked, msg.method, h), msg.params)]_vars

\* C15: a message that carries an id invokes no listener, and a message
\* without an id settles no call and removes no entry.
C15_ResponseOrEvent ==
    [][\A msg \in EventMessages : Deliver(msg) =>
          /\ HasId(msg) => invoked' = invoked
          /\ ~HasId(msg) => (outcome' = outcome /\ pending' = pending)]_vars

\* C16: after off(M, h), and until the next on, h is not registered for M and
\* the call raised no error.
C16_OffRemoves ==
    lastOff # NoOff => (~lastOff.threw /\ ~Registered(lastOff.method, lastOff.h))

\* C17: a close() on a channel that is closing or closed changes nothing, a
\* closed channel stays closed, and a call rejected by the close was rejected
\* once and is never rejected again.
C17_CloseIdempotent ==
    [][/\ (closeCalls' # closeCalls /\ wsState # "open") => UNCHANGED tvars
       /\ (closeCalls' # closeCalls /\ wsState = "open") =>
              (wsState' = "closing" /\ pending' = pending /\ outcome' = outcome)
       /\ wsState = "closed" => wsState' = "closed"
       /\ \A c \in DOMAIN outcome : outcome[c].by = "close" =>
              (attempts[c] = 1 /\ attempts'[c] = 1 /\ outcome'[c] = outcome[c])]_vars

\* C17 witness: close() was called twice, the channel is closed and a call was
\* rejected by the close.
C17_Witness ==
    /\ closeCalls >= 2
    /\ wsState = "closed"
    /\ \E c \in DOMAIN outcome : outcome[c].by = "close" /\ attempts[c] = 1

\* C18: connect returns a connection only if 'open' was the first thing to
\* happen; when the socket erred first or the timer ran out first, connect
\* fails with that error; and once connect has an outcome no later open, error
\* or timer event changes it.
C18_ConnectDecidedOnce ==
    [][/\ connResult' = "connection" => firstEvent' = "open"
       /\ firstEvent' = "error" => connResult' = ConnectFailed
       /\ firstEvent' = "timer" => connResult' = ConnectTimeout
       /\ connResult # "none" => connResult' = connResult
       /\ connPromise # "pending" => connPromise' = connPromise]_vars

\* C18 witness: connect failed on its timer and the socket opened afterwards;
\* the caller still has the timeout error and no connection.
C18_Witness ==
    /\ firstEvent = "timer"
    /\ connResult = ConnectTimeout
    /\ wsState = "open"

\* No fetch of the call so far was answered successfully.
NothingAnswered == \A i \in 1..Len(probes) : probes[i].res # "ok"

\* C19: getExistingDebugPort never throws, and a call in which no endpoint
\* answered successfully (marker missing, unreadable or without a valid port,
\* endpoint silent, process table unavailable or without a match) returns null.
C19_DetectNeverThrows ==
    /\ dpc # "threw"
    /\ (dpc = "done" /\ NothingAnswered) => dresult = 0

\* C19 witness: the marker file could not be read, ps failed, and the call
\* returned null.
C19_Witness ==
    /\ dpc = "done"
    /\ marker.file = "unreadable"
    /\ scanned
    /\ ~psOut.ok
    /\ dresult = 0

\* The port the marker file names (NaN when it names none).
MarkerPort == IF marker.file = "read" THEN ParseInt(FirstLine(marker.lines)) ELSE NaN

\* The lines of the process table that name the profile and a port.
Matches(line) == line.flag /\ IncludesProfile(line) /\ ParseInt(line.text) > 0
Matching == SelectSeq(psOut.lines, Matches)

\* The fetches of the scan: all but the one of the marker phase.
ScanProbes == IF MarkerPort > 0 THEN Tail(probes) ELSE probes

\* C20: a returned port is the one whose endpoint answered ok in the last
\* fetch of the call; the marker's port is asked first and returned when it
\* answers ok, without a scan; the process table is read only when the marker
\* phase gave nothing; the scan asks the matching lines in order, stops at the
\* first that answers ok and returns its port, and returns null only after
\* all of them failed.
C20_FirstRespondingPort ==
    /\ scanned => (MarkerPort <= 0 \/ (probes # <<>> /\ probes[1].res # "ok"))
    /\ dpc = "done" =>
          /\ dresult # 0 =>
                (probes # <<>> /\ probes[Len(probes)] = [port |-> dresult, res |-> "ok"])
          /\ MarkerPort > 0 => (probes # <<>> /\ probes[1].port = MarkerPort)
          /\ (MarkerPort > 0 /\ probes[1].res = "ok") =>
                (dresult = MarkerPort /\ ~scanned /\ Len(probes) = 1)
          /\ (scanned /\ psOut.ok) =>
                /\ Len(ScanProbes) <= Len(Matching)
                /\ \A k \in 1..Len(ScanProbes) :
                      /\ ScanProbes[k].port = ParseInt(Matching[k].text)
                      /\ k < Len(ScanProbes) => ScanProbes[k].res # "ok"
                /\ dresult = 0 => (Len(ScanProbes) = Len(Matching) /\ NothingAnswered)

\* C20 witness: the marker's port did not answer ok, the first matching
\* process did not either, the second one did and its port was returned.
C20_Witness ==
    /\ dpc = "done"
    /\ MarkerPort > 0
    /\ scanned
    /\ Len(Matching) = 2
    /\ Len(probes) = 3
    /\ probes[2].res # "ok"
    /\ dresult = ParseInt(Matching[2].text)
    /\ dresult # MarkerPort

\* How many command messages carrying the id were written to the channel.
Written(id) == Cardinality({i \in 1..Len(wire) : wire[i] = id})

\* C26: every send call whose command could be serialised has exactly one
\* command message on the channel, in every state from the return of send
\* on: never none, never a second one after a timeout, an error or a close.
C26_ExactlyOneWrite ==
    \A c \in 1..Len(calls) : outcome[c].by # "send" => Written(calls[c].id) = 1

\* C27: the search for an executable runs only when no session was detected
\* and nothing was launched; when it fails the run ends with the error
\* thrown, no port allocated, no process spawned, no channel opened and no
\* command sent, and a run that has ended starts nothing again.
C27_LaunchErrorBeforeLaunch ==
    [][/\ pc = "find" =>
              /\ existingPort = 0 /\ port = 0 /\ chrome = "null" /\ cdp = "null"
              /\ pc' \in {"find", "port", "exit"}
       /\ (pc = "find" /\ pc' = "exit") =>
              /\ thrown' /\ port' = 0 /\ chrome' = "null" /\ ~ownedChrome'
              /\ cdp' = "null" /\ cmds' = <<>> /\ signals' = <<>>
       /\ pc \in {"exit", "exited"} =>
              /\ pc' \in {"exit", "exited"}
              /\ port' = port /\ chrome' = chrome /\ cdp' = cdp /\ cmds' = cmds]_vars

\* C27 witness: no session was detected, the run ended with an error and it
\* holds no port, no process and no channel.
C27_Witness ==
    /\ pc = "exited"
    /\ thrown
    /\ existingPort = 0
    /\ port = 0
    /\ chrome = "null"
    /\ cdp = "null"
    /\ cmds = <<>>

\* C30: a port that getExistingDebugPort returns is the port of a browser
\* that runs on profileDir.
C30_PortOwnsProfile ==
    (dpc = "done" /\ dresult # 0) => owner = "this"

\* The polls answered before the last one all failed.
EarlierFailed == \A i \in 1..(Len(polls) - 1) : polls[i].res # "address"

\* C21: the wait returns the address exactly when a poll got one, which is
\* then the last poll made, after failures only; a failed poll is followed
\* by a sleep and the next look at the clock, and the only error the wait
\* ever ends with is the timeout, when the time is up.
C21_FirstSuccessWins ==
    /\ wpc = "returned" <=> (polls # <<>> /\ polls[Len(polls)].res = "address")
    /\ wpc = "returned" => (wresult = "address" /\ EarlierFailed)
    /\ wpc \in {"sleep", "check", "fetch", "threw"} =>
          (wresult # "address" /\ \A i \in 1..Len(polls) : polls[i].res # "address")
    /\ wpc = "threw" => (wresult = TimeoutError /\ wnow >= wTimeout)

\* C21 witness: two polls failed, the third got the address, the wait
\* returned it.
C21_Witness ==
    /\ wpc = "returned"
    /\ Len(polls) = 3
    /\ polls[1].res = "refused"
    /\ polls[2].res = "malformed"
    /\ wresult = "address"
    /\ wnow < wTimeout

\* The time a wait may overrun its timeout by: one sleep of the loop.
Grace == 1

\* C22: a wait that has not ended is within its timeout (give or take the
\* sleep in progress), and every poll was started before the timeout elapsed.
C22_BoundedByTimeout ==
    /\ wpc \in {"check", "fetch", "sleep"} => wnow <= wTimeout + Grace
    /\ \A i \in 1..Len(polls) : polls[i].at < wTimeout

\* C23: getFreePort resolves only with its server closed, and with the port
\* the server was bound to; when listen, address or close failed it rejects
\* and gives no port.
C23_ReleasedBeforeReturn ==
    /\ aprom = "resolved" => (srv = "closed" /\ aresult = AssignedPort /\ afail = "none")
    /\ aresult # 0 => aprom = "resolved"
    /\ (afail # "none" /\ (afail = "bind" \/ srv = "closed")) =>
          (aprom = "rejected" /\ aresult = 0)

\* C23 witness: the server was bound and closed, and its port returned.
C23_Witness ==
    /\ aprom = "resolved"
    /\ srv = "closed"
    /\ aresult = AssignedPort

\* The override in force: GROK_CHROME_PATH when it is set to a non-empty
\* string, X_BROWSER_CHROME_PATH otherwise, without the white space around it.
OverridePath == IF Truthy(fgrok) THEN fgrok.path ELSE fx.path

OverrideUsable == OverridePath # "" /\ OverridePath \in ffs

\* The place of a path in the candidate list of the platform (0: not in it).
PlaceOf(path) ==
    LET list == CandidatesFor(fplatform)
    IN IF \E i \in 1..Len(list) : list[i] = path
       THEN CHOOSE i \in 1..Len(list) : list[i] = path
       ELSE 0

\* C24: the result is the override when one is set and exists; otherwise an
\* existing candidate of the platform with no existing candidate before it,
\* or absent when no candidate exists; an override that does not exist
\* changes nothing; and a second call in the same state returns the same.
C24_FindIsFirstExisting ==
    fcalls > 0 =>
        /\ OverrideUsable => fresult = OverridePath
        /\ ~OverrideUsable =>
              \/ /\ fresult = Absent
                 /\ \A i \in 1..Len(CandidatesFor(fplatform)) :
                        CandidatesFor(fplatform)[i] \notin ffs
              \/ /\ PlaceOf(fresult) > 0
                 /\ fresult \in ffs
                 /\ \A j \in 1..(PlaceOf(fresult) - 1) :
                        CandidatesFor(fplatform)[j] \notin ffs
        /\ fcalls >= 2 => fresult = fprev

\* C24 witness: an override is set but does not exist, the first candidate
\* does not exist either, a later one does and was returned, twice.
C24_Witness ==
    /\ fcalls >= 2
    /\ OverridePath = "ovA"
    /\ "ovA" \notin ffs
    /\ PlaceOf(fresult) > 1

\* C25: a step on one instance (send, on, a response, an event, a timeout,
\* a close) leaves the id counter, the registry, the timers, the listeners
\* and the outcome of every call of the other instance as they were.
C25_InstancesIsolated ==
    [][\A j \in Instances : j # actor' => inst'[j] = inst[j]]_vars

\* C25 witness: both instances sent a call with id 1; the response with id 1
\* on the first settled its call, and the call of the second is pending.
C25_Witness ==
    /\ 1 \in DOMAIN inst[1].outcome
    /\ inst[1].outcome[1] = "resolved"
    /\ 1 \in inst[2].pending
    /\ inst[2].outcome[1] = "pending"
    /\ inst[2].handlers # inst[1].handlers

\* C28: a run that ends well without --all has saved exactly one file, and it
\* is the file at the output path, in image mode and in video mode.
C28_OneFileWithoutAll ==
    (spc = "done" /\ ~saveArgs.all) => savedPaths = <<OutputPath>>

\* The rest of C28: with --all and every download succeeding, every output is
\* saved, numbered from 1 when there is more than one and at the output path
\* when there is one; and a run in image mode without --all saves one file.
SavedAsDocumented ==
    spc = "done" =>
        /\ (saveArgs.all /\ Len(savedPaths) = Len(mediaUrls) /\ Len(mediaUrls) > 1)
               => savedPaths = [k \in 1..Len(mediaUrls) |-> Numbered(k)]
        /\ (saveArgs.all /\ Len(mediaUrls) = 1) => savedPaths = <<OutputPath>>
        /\ (~saveArgs.all /\ ~saveArgs.video) => savedPaths = <<OutputPath>>

\* An argument list in which every flag that reads a value is followed by one
\* that is not itself a flag.
WellFormed ==
    \A k \in 1..Len(argv) :
        argv[k] \in ValueFlags => (k < Len(argv) /\ ~StartsWithDash(argv[k + 1]))

Unknown(a) == StartsWithDash(a) /\ a \notin KnownFlags

\* The place of the last occurrence of one of the flags (0: none occurs).
LastOf(flags) ==
    IF \E k \in 1..Len(argv) : argv[k] \in flags
    THEN CHOOSE k \in 1..Len(argv) :
             /\ argv[k] \in flags
             /\ \A j \in (k + 1)..Len(argv) : argv[j] \notin flags
    ELSE 0

\* C29: parseArgs throws only for an argument list that holds an unknown option
\* and, when every value flag has its value, for every such list; of what it
\* returns, output is grok-image.png (grok-video.mp4 with --video) when no
\* output flag occurs and timeout is 120 (180 with --video) when --timeout
\* does not occur, and when every value flag has its value, video is set
\* exactly when a video flag occurs and output and timeout are the values of
\* the last output and timeout flags, wherever the video flag stands.
C29_DefaultsOnlyWhenNotGiven ==
    /\ apc = "error" => \E k \in 1..Len(argv) : Unknown(argv[k])
    /\ (apc = "done" /\ WellFormed) => \A k \in 1..Len(argv) : ~Unknown(argv[k])
    /\ apc = "done" =>
        /\ LastOf(Output) = 0 =>
               aout.output = IF aout.video THEN GrokVideoMp4 ELSE GrokImagePng
        /\ LastOf({Timeout}) = 0 =>
               aout.timeout = IF aout.video THEN VideoTimeout ELSE ImageTimeout
        /\ WellFormed =>
               /\ aout.video = (\E k \in 1..Len(argv) : argv[k] \in Video)
               /\ LastOf(Output) # 0 => aout.output = argv[LastOf(Output) + 1]
               /\ LastOf({Timeout}) # 0 =>
                      aout.timeout = ParseInt(argv[LastOf({Timeout}) + 1])

\* C29 witness: -o cat -v was parsed: the output given before the video flag
\* is kept, and the timeout is the default of video mode.
C29_Witness ==
    /\ apc = "done"
    /\ Len(argv) = 3
    /\ argv[1] \in Output
    /\ ~StartsWithDash(argv[2])
    /\ argv[3] \in Video
    /\ aout.video
    /\ aout.output = argv[2]
    /\ aout.timeout = VideoTimeout

\* C31: ownedChrome is true exactly when main holds the handle of a process it
\* spawned: after a reuse (existingPort set) it is false and chrome is null,
\* when it is true the browser was launched on the port main allocated, and
\* the only change it ever makes is the one from false to true at the spawn.
C31_OwnedIffHandle ==
    [][/\ ownedChrome' <=> (chrome' # "null")
       /\ existingPort' # 0 => (~ownedChrome' /\ chrome' = "null")
       /\ ownedChrome' => (existingPort' = 0 /\ port' = FreePort)
       /\ ownedChrome' # ownedChrome => (pc = "spawn" /\ ownedChrome')]_vars

\* C31 witness: a run that launched its browser has ended, still owning it.
C31_Witness ==
    /\ pc = "exited"
    /\ ownedChrome
    /\ chrome = "proc"
    /\ existingPort = 0

\* The commands of the finally block of a run whose channel was connected.
Teardown ==
    (IF grokTargetId # "null" THEN <<"Target.closeTarget">> ELSE <<>>)
    \o (IF ownedChrome THEN <<"Browser.close">> ELSE <<>>)

EndsWith(log, tail) ==
    /\ Len(log) >= Len(tail)
    /\ SubSeq(log, Len(log) - Len(tail) + 1, Len(log)) = tail

\* C32: once connect succeeded, however the try block ends: the channel is
\* closed when main ends; when the channel is closed the commands sent last
\* were Target.closeTarget for the tab of this run, if it opened one, then
\* Browser.close, if and only if the browser is owned; a signal reaches the
\* process only after the channel was closed; and an owned process that still
\* runs when main ends was sent SIGTERM.
C32_TeardownOrder ==
    /\ (pc \in {"exit", "exited"} /\ cdp # "null") => cdp = "closed"
    /\ cdp = "closed" =>
           /\ EndsWith(cmds, Teardown)
           /\ ~ownedChrome => \A k \in 1..Len(cmds) : cmds[k] # "Browser.close"
    /\ (signals # <<>> /\ cdp # "null") => cdp = "closed"
    /\ (pc \in {"exit", "exited"} /\ cdp # "null" /\ ownedChrome /\ chromeAlive) =>
           (signals # <<>> /\ signals[1] = "SIGTERM")

\* C32 witness: the run of the mode failed in an owned browser, both teardown
\* commands were sent, the channel is closed and the process was signalled.
C32_Witness ==
    /\ pc = "exit"
    /\ thrown
    /\ cdp = "closed"
    /\ ownedChrome
    /\ grokTargetId # "null"
    /\ EndsWith(cmds, <<"Runtime.evaluate", "Target.closeTarget", "Browser.close">>)
    /\ signals = <<"SIGTERM">>

\* C33: when main ends after readiness or connect failed in a browser it
\* launched (no channel exists), the process was sent SIGTERM, unless it had
\* exited by itself before the finally block reached it; no command was sent.
C33_SpawnedIsSignalled ==
    (pc \in {"exit", "exited"} /\ ownedChrome /\ cdp = "null") =>
        /\ thrown
        /\ cmds = <<>>
        /\ chromeAlive => (signals # <<>> /\ signals[1] = "SIGTERM")

\* C33 witness: the launched browser never became ready or reachable, and the
\* process was sent SIGTERM without any channel.
C33_Witness ==
    /\ pc = "exit"
    /\ ownedChrome
    /\ cdp = "null"
    /\ thrown
    /\ chromeAlive
    /\ signals = <<"SIGTERM">>

\* C34: in a reused browser every Target.closeTarget main sends is for the tab
\* main created: it comes after the Target.createTarget of the run, and there
\* is one at most.
C34_ClosesOnlyOwnTab ==
    existingPort # 0 =>
        /\ \A k \in 1..Len(cmds) : cmds[k] = "Target.closeTarget" =>
               \E j \in 1..(k - 1) : cmds[j] = "Target.createTarget"
        /\ Cardinality({k \in 1..Len(cmds) : cmds[k] = "Target.closeTarget"}) <= 1

\* C35: the registry holds an entry, and a timer is armed, only for calls that
\* are not settled yet.
C35_EntriesAreUnsettled ==
    /\ \A k \in DOMAIN pending : ~IsSettled(pending[k].call)
    /\ \A c \in timers : ~IsSettled(c)

\* C36: whether or not a listener throws, the arrival of an event invokes
\* every listener registered for its name, and a message that bears the id of
\* a pending call settles that call.
C36_ThrowingListenerContained ==
    [][\A msg \in EventMessages : Deliver(msg) =>
          /\ IsPush(msg) =>
                 Len(invoked') = Len(invoked) + Len(Handlers(msg.method))
          /\ (HasId(msg) /\ Lookup(pending, msg.id)) =>
                 outcome'[pending[msg.id].call].kind # "pending"]_vars

\* The part of C36 that holds: a listener that threw is still registered and
\* is invoked again by the next event of its name.
StillDelivered ==
    [][\A msg \in EventMessages : (Deliver(msg) /\ IsPush(msg)) =>
          /\ eventHandlers' = eventHandlers
          /\ Handlers(msg.method) # <<>> =>
                 /\ Len(invoked') > Len(invoked)
                 /\ invoked'[Len(invoked) + 1].h = Handlers(msg.method)[1]]_vars

\* C37: once connect has failed, by its timer or by an error of the socket,
\* the socket is closing or closed: it is not open and not on its way to open.
C37_FailedConnectLeavesNoSocket ==
    connResult \in {ConnectTimeout, ConnectFailed} => wsState \in {"closing", "closed"}

\* The part of C37 that holds: after a handshake error the socket is closed.
ErrorClosesSocket ==
    (firstEvent = "error" /\ connResult = ConnectFailed) => wsState \in {"closing", "closed"}

\* What a frame the handler ignores must leave alone: the id counter, the
\* registry, the timers, the listeners, and the outcome of every call.
Untouched == UNCHANGED <<nextId, pending, timers, eventHandlers, outcome, attempts>>

\* The id of the message is that of no call that is still unsettled: it was
\* never issued, or its call has resolved or rejected.
NoPendingCall(msg) ==
    /\ HasId(msg)
    /\ \A c \in Issued : calls[c].id = msg.id => IsSettled(c)

\* C38: the arrival of a response whose id is that of no unsettled call (never
\* issued, or already settled) changes neither the id counter, the registry,
\* the timers, the listener table nor the outcome of any call.
C38_IgnoredFramesChangeNothing ==
    [][\A msg \in Messages : (Receive(msg) /\ NoPendingCall(msg)) => Untouched]_vars

\* The part of C38 that holds: a frame that is not JSON, and a message whose
\* id has no entry in the registry, change none of these.
NoEntryChangesNothing ==
    [][/\ ReceiveUnparsable => Untouched
       /\ \A msg \in Messages : (ReceiveFrame(msg) /\ Unmatched(msg)) => Untouched]_vars

\* How often the listener h is held for the method.
Held(method, h) == Cardinality({i \in 1..Len(Handlers(method)) : Handlers(method)[i] = h})

\* C39: on(M, h) for a listener already registered for M leaves the listener
\* table as it is; after any on(M, h) the table holds h once for M, and what
\* it holds for every other name is unchanged; and the arrival of an event of
\* a name invokes each listener registered for it exactly once.
C39_OnIsIdempotent ==
    [][/\ \A m \in EventMethods, h \in Listeners : OnObserved(m, h) =>
             /\ Registered(m, h) => eventHandlers' = eventHandlers
             /\ Held(m, h)' = 1
             /\ \A m2 \in EventMethods \ {m} : Handlers(m2)' = Handlers(m2)
       /\ \A msg \in EventMessages : (Deliver(msg) /\ IsPush(msg)) =>
             \A h \in Listeners : Registered(msg.method, h) =>
                 Len(ParamsSeen(invoked', msg.method, h))
                     = Len(ParamsSeen(invoked, msg.method, h)) + 1]_vars

\* The part of C39 that holds: the table holds a listener once per name however
\* often it is registered, a registration touches no other name, and no event
\* invokes a listener twice.
HeldOnce ==
    [][/\ \A m \in EventMethods, h \in Listeners : OnObserved(m, h) =>
             /\ Registered(m, h) => eventHandlers' = eventHandlers
             /\ Held(m, h)' = 1
             /\ \A m2 \in EventMethods \ {m} : Handlers(m2)' = Handlers(m2)
       /\ \A msg \in EventMessages : (Deliver(msg) /\ IsPush(msg)) =>
             \A h \in Listeners :
                 Len(ParamsSeen(invoked', msg.method, h))
                     <= Len(ParamsSeen(invoked, msg.method, h)) + 1]_vars

====
